---- MODULE Spec2Model ----
(***************************************************************************)
(* Model of the CSV data grid: the DataGrid component with its             *)
(* VirtualizedRows child (the mounted grid), the DataGridHeader and         *)
(* DataGridBody components, and the two window computations as pure         *)
(* functions.  One behaviour follows one component; `component` says which. *)
(***************************************************************************)
EXTENDS Integers, Sequences, FiniteSets, TLC

VARIABLES
    component,       \* which component this behaviour follows
    \* ---- DataGrid (props, React state, DOM) ----
    data,            \* the data prop: a sequence of records
    headers,         \* useState(initialHeaders)
    sortConfig,      \* useState({key: null, direction: "asc"})
    dimensions,      \* useState({width: 0, height: 0})
    scrollPosition,  \* useState({top: 0, left: 0})
    containerSize,   \* contentRect of containerRef.current
    bodyDom,         \* bodyRef.current: scrollTop, scrollLeft
    headerDom,       \* headerRef.current: scrollLeft
    pendingScroll,   \* regions with a scroll event waiting to be dispatched
    resizeTimer,     \* the debounced resize callback: << >> or its latest entry
    dataLenDep,      \* data.length at the last run of the data-change effect
    \* ---- VirtualizedRows ----
    visibleRange,    \* useState({startIndex: 0, endIndex: visibleRowsCount})
    rangeDeps,       \* [scrollTop, visibleRowsCount, data.length] at the last run
    lastEvent,       \* the last event the environment delivered
    \* ---- DataGridHeader ----
    hdrHeaders,      \* the headers prop
    onSortCalls,     \* the calls made to the onSort prop
    \* ---- window computations as functions ----
    winIn,           \* the inputs
    winOut,          \* << >> before the results are computed, then << results >>
    \* ---- DataGrid: environment, column layout, scroll history ----
    session,         \* what the user and the host of this behaviour do
    gutter,          \* width of the body's vertical scrollbar in this browser
    headersProp,     \* the headers prop (initialHeaders) of the last render
    drag,            \* << >> or the gesture the resize handle's closure holds
    resizeMoves,     \* mousemove events delivered to resize gestures so far
    syncChain,       \* sync assignments in a row with no other scroll between
    monitor,         \* what some run of handleScroll has done so far
    observer,        \* the ResizeObserver: "none", "live" or "detached"
    \* ---- DataGridHeader: resize gesture ----
    hdrResizing,     \* useState(null): resizingColumn, << >> or << id >>
    hdrGesture,      \* startX, startWidth, the document's listeners, onResize calls
    \* ---- DataGridBody ----
    measuredRowHeight, \* useState(35)
    lastMeasure,     \* << >> or what the last run of measureRowHeight did
    bodyData,        \* the data prop of the last render
    mountData,       \* the data prop of the first render
    bodyDimensions,  \* useState({width: 0, height: 0})
    bodyStartIndex,  \* useState(0): startIndex
    visibleRows,     \* useState([])
    scrollTicking,   \* useRef(false)
    container,       \* containerRef.current: scrollTop, clientHeight, row height
    frames,          \* the requested animation frame callbacks, oldest first
    bodyResizeTimer, \* the debounced resize callback: << >> or its latest entry
    bodyMutationTimer, \* the debounced mutation callback: << >> or its latest batch
    effectDeps,      \* << >> or the closure of the render whose effects ran last
    lastCalc,        \* << >> or what the last run of calculateVisibleRows did
    bodyLog,         \* counts of the environment's events, and a snapshot
    \* ---- column width clamps as functions ----
    clampIn,         \* the inputs
    clampOut,        \* << >> before the results are computed, then << results >>
    \* ---- observer utilities ----
    utilObserver     \* frames requested, timers started and callbacks made

vars == << component, data, headers, sortConfig, dimensions, scrollPosition,
           containerSize, bodyDom, headerDom, pendingScroll, resizeTimer,
           dataLenDep, visibleRange, rangeDeps, lastEvent, hdrHeaders,
           onSortCalls, winIn, winOut, session, gutter, headersProp, drag,
           resizeMoves, syncChain, monitor, observer, hdrResizing,
           measuredRowHeight, lastMeasure, bodyData, mountData,
           bodyDimensions, bodyStartIndex, visibleRows, scrollTicking, container,
           frames, bodyResizeTimer, bodyMutationTimer, effectDeps, lastCalc,
           bodyLog, clampIn, clampOut,
           hdrGesture, utilObserver >>

gridVars == << data, headers, sortConfig, dimensions, scrollPosition,
               containerSize, bodyDom, headerDom, pendingScroll, resizeTimer,
               dataLenDep, visibleRange, rangeDeps >>

hdrVars == << hdrHeaders, onSortCalls >>

\* the environment of the mounted grid
envVars == << session, gutter >>

\* the column layout of the mounted grid
colVars == << headersProp, drag, resizeMoves >>

\* the scroll history of the mounted grid
logVars == << syncChain, monitor >>

winVars == << winIn, winOut >>

bodyVars == << measuredRowHeight, lastMeasure, bodyData, mountData,
               bodyDimensions, bodyStartIndex, visibleRows, scrollTicking,
               container, frames, bodyResizeTimer, bodyMutationTimer,
               effectDeps, lastCalc, bodyLog >>

clampVars == << clampIn, clampOut >>

utilVars == << utilObserver >>

\* what the mounted grid leaves alone
otherVars == << hdrVars, hdrResizing, hdrGesture, winVars, bodyVars, clampVars,
                utilVars >>

NULL == "null"

(***************************************************************************)
(* Arithmetic of the source: Math.max, Math.min, Math.floor, Math.ceil.    *)
(***************************************************************************)
Max(a, b) == IF a >= b THEN a ELSE b

Min(a, b) == IF a <= b THEN a ELSE b

\* Math.floor(a / b) for b > 0
FloorDiv(a, b) == a \div b

\* Math.ceil(a / b) for b > 0
CeilDiv(a, b) == -((-a) \div b)

\* Array.prototype.slice(from, to): 0-based, `to` exclusive, clamped
Slice(s, from, to) ==
    LET lo == Min(Max(from, 0), Len(s))
        hi == Min(Max(to, 0), Len(s))
    IN  IF hi <= lo THEN << >> ELSE SubSeq(s, lo + 1, hi)

(***************************************************************************)
(* Program constants.                                                      *)
(***************************************************************************)
ROW_HEIGHT == 35

DefaultHeight == 300

MinVisibleRows == 10

RangeBuffer == 2

(***************************************************************************)
(* VirtualizedRows: the window of the mounted grid.                        *)
(***************************************************************************)
\* Math.ceil(height / ROW_HEIGHT)
CeilRows(height) == CeilDiv(height, ROW_HEIGHT)

\* the row count with neither the default height nor the minimum
RowsCountOfHeight(height) == CeilRows(height)

\* DataGrid.visibleRowsCount
visibleRowsCount(height) ==
    Max(MinVisibleRows,
        CeilRows(IF height # 0 THEN height ELSE DefaultHeight))

\* the scrollTop effect ending where the viewport's last row starts: no
\* buffer, and one row fewer than the viewport may cut through
RangeOfShort(scrollTop, rowsCount, len) ==
    LET startIndex == Max(0, FloorDiv(scrollTop, ROW_HEIGHT))
    IN  [startIndex |-> startIndex,
         endIndex   |-> Min(len, startIndex + rowsCount - 1)]

\* the scrollTop effect with a buffer that grows with the dataset
RangeOfWholeData(scrollTop, rowsCount, len) ==
    LET startIndex == Max(0, FloorDiv(scrollTop, ROW_HEIGHT))
    IN  [startIndex |-> startIndex, endIndex |-> len]

\* the scrollTop effect: endIndex is exclusive (data.slice(start, end))
RangeOf(scrollTop, rowsCount, len) ==
    LET startIndex == Max(0, FloorDiv(scrollTop, ROW_HEIGHT))
    IN  [startIndex |-> startIndex,
         endIndex   |-> Min(len, startIndex + rowsCount + RangeBuffer)]

(***************************************************************************)
(* DataGridBody.calculateVisibleRows: end is inclusive                     *)
(* (data.slice(start, end + 1)).                                           *)
(***************************************************************************)
\* container.clientHeight || dimensions.height
clientHeightOf(domHeight, dimHeight) ==
    IF domHeight # 0 THEN domHeight ELSE dimHeight

\* Math.ceil(visibleRowCount * 0.5), and the same rounded down
OverscanFloor(visibleRowCount) == FloorDiv(visibleRowCount, 2)

overscanRowCount(visibleRowCount) == CeilDiv(visibleRowCount, 2)

calculateVisibleRows(scrollTop, clientHeight, rowHeight, len) ==
    LET visibleRowCount == CeilDiv(clientHeight, rowHeight)
        overscan        == overscanRowCount(visibleRowCount)
        rawStart        == FloorDiv(scrollTop, rowHeight)
    IN  [start            |-> Max(0, rawStart - overscan),
         end              |-> Min(len - 1, rawStart + visibleRowCount + overscan),
         visibleRowCount  |-> visibleRowCount,
         overscanRowCount |-> overscan]

(***************************************************************************)
(* Sort Engine: _.orderBy(data, [key], [direction]).                       *)
(***************************************************************************)
\* A cell value is << >> (empty: null after dynamic typing) or << n >> (the
\* number n).
Empty == << >>

Num(n) == << n >>

\* lodash compareAscending on numbers and null: null sorts after every number
compareAscending(value, other) ==
    IF value = other THEN 0
    ELSE IF value = Empty THEN 1
    ELSE IF other = Empty THEN -1
    ELSE IF value[1] > other[1] THEN 1
    ELSE -1

\* compareMultiple without the index tie-break: equal keys compare by
\* direction like the rest
ComparerNoTieBreak(d, key, direction, i, j) ==
    LET result == compareAscending(d[i][key], d[j][key])
    IN  IF result # 0
        THEN (IF direction = "desc" THEN -result ELSE result)
        ELSE (IF direction = "desc" THEN j - i ELSE i - j)

\* lodash compareMultiple over one criterion: the order flips the result of
\* compareAscending, and equal keys fall back to the index in the input
comparer(d, key, direction, i, j) ==
    LET result == compareAscending(d[i][key], d[j][key])
    IN  IF result # 0
        THEN (IF direction = "desc" THEN -result ELSE result)
        ELSE i - j

\* insert index i into the sorted index sequence p
RECURSIVE InsertIndex(_, _, _, _, _)
InsertIndex(d, key, direction, p, i) ==
    IF p = << >> THEN << i >>
    ELSE IF comparer(d, key, direction, i, Head(p)) < 0
         THEN << i >> \o p
         ELSE << Head(p) >> \o InsertIndex(d, key, direction, Tail(p), i)

RECURSIVE SortIndices(_, _, _, _)
SortIndices(d, key, direction, n) ==
    IF n = 0 THEN << >>
    ELSE InsertIndex(d, key, direction,
                     SortIndices(d, key, direction, n - 1), n)

\* baseOrderBy: a new array, the input in the order of the comparer
orderBy(d, key, direction) ==
    LET p == SortIndices(d, key, direction, Len(d))
    IN  [k \in 1..Len(d) |-> d[p[k]]]

\* a sort in place (Array.prototype.sort on the prop) would leave this
SourceSortedInPlace(d, cfg) ==
    IF cfg.key = NULL THEN d ELSE orderBy(d, cfg.key, cfg.direction)

\* what computing sortedData leaves in the data prop: orderBy copies
sourceAfterSort(d, cfg) == d

\* DataGrid.sortedData
sortedData(d, cfg) ==
    IF cfg.key = NULL THEN d ELSE orderBy(d, cfg.key, cfg.direction)

\* a two-state toggle: descending goes back to ascending
HandleSortTwoState(prevConfig, key) ==
    IF prevConfig.key = key /\ prevConfig.direction = "asc"
    THEN [key |-> key, direction |-> "desc"]
    ELSE [key |-> key, direction |-> "asc"]

\* a toggle that keeps the direction when the column changes
HandleSortKeepDirection(prevConfig, key) ==
    IF prevConfig.key = key
    THEN (IF prevConfig.direction = "asc"
          THEN [key |-> key, direction |-> "desc"]
          ELSE [key |-> NULL, direction |-> "asc"])
    ELSE [key |-> key, direction |-> prevConfig.direction]

\* DataGrid.handleSort: the updater passed to setSortConfig
handleSort(prevConfig, key) ==
    IF prevConfig.key = key /\ prevConfig.direction = "asc"
    THEN [key |-> key, direction |-> "desc"]
    ELSE IF prevConfig.key = key /\ prevConfig.direction = "desc"
    THEN [key |-> NULL, direction |-> "asc"]
    ELSE [key |-> key, direction |-> "asc"]

\* a click handler that ignores the sortable flag
SortOnAnyClick(header, prevConfig) == handleSort(prevConfig, header.id)

\* the header cell's onClick: header.sortable && handleSort(header.id)
onHeaderClick(header, prevConfig) ==
    IF header.sortable THEN handleSort(prevConfig, header.id) ELSE prevConfig

(***************************************************************************)
(* Column resizing: the resize handle of DataGrid and the gesture handlers *)
(* of DataGridHeader.                                                      *)
(***************************************************************************)
HandleMinWidth == 50

HandleMaxWidth == 500

AutoScrollStep == 10

\* _.clamp(number, lower, upper)
clamp(number, lower, upper) == Max(lower, Min(upper, number))

\* handleMouseMove of the resize handle: the width handed to
\* handleColumnResize
resizeMoveWidth(startWidth, diff) ==
    clamp(startWidth + diff, HandleMinWidth, HandleMaxWidth)

\* DataGrid.handleColumnResize
handleColumnResize(prevHeaders, columnId, newWidth) ==
    [i \in 1..Len(prevHeaders) |->
        IF prevHeaders[i].id = columnId
        THEN [prevHeaders[i] EXCEPT !.width = newWidth]
        ELSE prevHeaders[i]]

\* a handle on every column, whatever its resizable flag
StartOnAnyColumn(header, gesture) ==
    << [id |-> header.id, startWidth |-> header.width] >>

\* a press at the right edge of a header cell: the handle is rendered for a
\* resizable column only, and its onMouseDown captures the column and its
\* width in the closures it registers on the document
onHandleMouseDown(header, gesture) ==
    IF header.resizable
    THEN << [id |-> header.id, startWidth |-> header.width] >>
    ELSE gesture

\* headers.find((h) => h.id === id)
ColumnOf(hs, id) == CHOOSE h \in {hs[k] : k \in 1..Len(hs)} : h.id = id

\* DataGridHeader.handleResizeStart: resizingColumn after the call
handleResizeStart(hs, resizing, headerId) ==
    LET header == CHOOSE h \in {hs[k] : k \in 1..Len(hs)} : h.id = headerId
    IN  IF ~header.resizable THEN resizing ELSE << headerId >>

\* DataGridHeader.handleResizeEnd: the width handed to onResize
resizeEndWidth(header, startWidth, diff) ==
    Max(header.minWidth, Min(header.maxWidth, startWidth + diff))

(***************************************************************************)
(* DataGrid.handleScroll: the updaters of scrollPosition and the           *)
(* assignment to the other region.                                         *)
(***************************************************************************)
bodyBranchPosition(prev, scrollTop, scrollLeft) ==
    IF prev.top = scrollTop /\ prev.left = scrollLeft
    THEN prev
    ELSE [top |-> scrollTop, left |-> scrollLeft]

\* a header branch that stores a position of its own for both axes
HeaderBranchBothAxes(prev, scrollLeft) == [top |-> 0, left |-> scrollLeft]

headerBranchPosition(prev, scrollLeft) ==
    IF prev.left = scrollLeft THEN prev ELSE [prev EXCEPT !.left = scrollLeft]

\* element.scrollLeft = value: the browser keeps the offset inside the
\* element's scrollable extent
assignScrollLeft(value, extent) == Min(Max(value, 0), extent)

(***************************************************************************)
(* DataGridBody.measureRowHeight.                                          *)
(***************************************************************************)
DefaultMeasuredRowHeight == 35

Abs(x) == IF x < 0 THEN -x ELSE x

\* the estimate after a call: closureHeight is the measuredRowHeight of the
\* render whose measureRowHeight is called, current the one in the state
measureRowHeight(closureHeight, current, computedHeight) ==
    IF computedHeight > 0 /\ Abs(computedHeight - closureHeight) > 1
    THEN computedHeight
    ELSE current

(***************************************************************************)
(* DataGridBody: renders, closures and observers.                          *)
(***************************************************************************)
\* what the callbacks of one render of DataGridBody close over: the data
\* prop, measuredRowHeight and dimensions.height of that render
Closure(d, rowHeight, dimensionsHeight) ==
    [data |-> d, measuredRowHeight |-> rowHeight,
     dimensionsHeight |-> dimensionsHeight]

\* calculateVisibleRows of a render, run against the container as it is now
windowOf(closure, dom) ==
    calculateVisibleRows(dom.scrollTop,
                         clientHeightOf(dom.clientHeight, closure.dimensionsHeight),
                         closure.measuredRowHeight, Len(closure.data))

\* setVisibleRows(data.slice(start, end + 1))
rowsOf(closure, w) == Slice(closure.data, w.start, w.end + 1)

\* the scrollTop a frame callback computes with, had it been captured when
\* the callback was scheduled
ScrollTopAtSchedule(frame, dom) == frame.notified

\* the frame callback calls calculateVisibleRows, which reads
\* container.scrollTop when it runs
frameScrollTop(frame, dom) == dom.scrollTop

\* every record of a batch, whatever the observer was asked to report
AllRecords(kinds) == kinds

\* mutationObserver.observe(container, {attributes, attributeFilter:
\* ["class", "style"], childList, subtree}): the records the browser reports
observedRecords(kinds) == kinds \cap {"class", "style", "childList"}

\* relevantMutation of the DataGridBody callback
relevantMutation(batch) ==
    \E kind \in batch : kind = "class" \/ kind = "style" \/ kind = "childList"

\* relevantMutation of the DataGrid callback: attribute records only
gridRelevantMutation(batch) ==
    \E kind \in batch : kind = "class" \/ kind = "style"

(***************************************************************************)
(* Bounds of the model and the inputs the environment draws from.          *)
(***************************************************************************)
SmallLen == 5

BigLen == 16

SmallHeight == 300

TallHeight == 420

ContainerWidth == 400

ScrollGrain == 130

MaxScrollStops == 3

HorizontalStop == 30

MaxSortCalls == 3

Heights == {SmallHeight, TallHeight}

ScrollTops == {i * ScrollGrain : i \in 0..MaxScrollStops}

ScrollLefts == {0, HorizontalStop}

\* the column definitions CSVUploader builds, with the flags varied
Header(id, sortable, resizable) ==
    [id |-> id, name |-> id, width |-> 150, minWidth |-> 50, maxWidth |-> 500,
     resizable |-> resizable, sortable |-> sortable]

InitialHeaders ==
    << Header("a", TRUE, TRUE), Header("b", TRUE, FALSE),
       Header("c", FALSE, TRUE) >>

\* n records with ties and empty cells in column a, ties in column b
MakeRows(n, seed) ==
    [i \in 1..n |->
        [id |-> seed * 1000 + i,
         a  |-> IF i % 5 = 0 THEN Empty ELSE Num((i * seed) % 3),
         b  |-> Num((i + seed) % 2),
         c  |-> Num(i)]]

Datasets ==
    {MakeRows(SmallLen, 1), MakeRows(SmallLen, 2),
     MakeRows(BigLen, 1), MakeRows(BigLen, 2)}

NoSort == [key |-> NULL, direction |-> "asc"]

Event(type, column, before) ==
    [type |-> type, column |-> column, sortBefore |-> before]

(***************************************************************************)
(* More inputs: column resize gestures, the browser's scrollbar, props of  *)
(* the column sessions.                                                    *)
(***************************************************************************)
MaxResizeMoves == 2

ShrinkDrag == 200

GrowDrag == 400

ScrollbarWidth == 15

ResizeDiffs == {-ShrinkDrag, GrowDrag}

\* presses on the handles of DataGridHeader in one behaviour
MaxGestures == 2

PointerLeft == 100

\* clientX of the mouse events delivered to DataGridHeader
PointerXs == {PointerLeft, PointerLeft + ShrinkDrag,
              PointerLeft + ShrinkDrag + GrowDrag}

\* overlay scrollbars take no room, classic ones take ScrollbarWidth
Gutters == {0, ScrollbarWidth}

\* column definitions with limits of their own
OwnLimitHeaders ==
    << [id |-> "c", name |-> "c", width |-> 150, minWidth |-> 100,
        maxWidth |-> 300, resizable |-> TRUE, sortable |-> TRUE],
       Header("a", FALSE, FALSE) >>

ColumnHeaderSets == {InitialHeaders, OwnLimitHeaders}

HeaderSets == {<< >>} \cup ColumnHeaderSets

ColumnDatasets == {<< >>, MakeRows(BigLen, 1)}

NoFault == [headerChangedTop |-> FALSE]

(***************************************************************************)
(* DataGrid: what a render derives from props and state.                   *)
(***************************************************************************)
\* _.isEmpty(data) || _.isEmpty(headers): the placeholder is rendered
EmptyShown == data = << >> \/ headers = << >>

\* _.sumBy(headers, "width")
RECURSIVE sumWidth(_)
sumWidth(hs) == IF hs = << >> THEN 0 ELSE Head(hs).width + sumWidth(Tail(hs))

totalColumnsWidth == sumWidth(headers)

VisibleRowsCount == visibleRowsCount(dimensions.height)

SortedData == sortedData(data, sortConfig)

\* VirtualizedRows.visibleData: the rows in the render tree
VisibleData ==
    Slice(SortedData, visibleRange.startIndex, visibleRange.endIndex)

\* the body scrolls over totalHeight = data.length * ROW_HEIGHT; the header
\* and footer rows of the container are left out of the body's height
MaxScrollTop(len, size) == Max(0, len * ROW_HEIGHT - size.height)

\* the header container hides its scrollbar and scrolls over the full width
HeaderExtent(hs, size) == Max(0, sumWidth(hs) - size.width)

\* the body shows a vertical scrollbar when its rows overflow; a classic
\* scrollbar is taken from the body's client width
BodyGutter(len, size) == IF len * ROW_HEIGHT > size.height THEN gutter ELSE 0

BodyExtent(hs, len, size) ==
    Max(0, sumWidth(hs) - (size.width - BodyGutter(len, size)))

MaxScrollLeft(size) == HeaderExtent(headers, size)

\* the deps of the scrollTop effect in the current render
CurrentRangeDeps == << scrollPosition.top, VisibleRowsCount, Len(data) >>

RangeEffectPending == ~EmptyShown /\ rangeDeps # CurrentRangeDeps

DataEffectPending == dataLenDep # << Len(data) >>

EffectsPending == RangeEffectPending \/ DataEffectPending

Quiescent == ~EffectsPending /\ pendingScroll = {}

\* the layout after a commit keeps the offsets inside the scrollable extent
ClampedBodyFor(dom, hs, len, size) ==
    [scrollTop  |-> Min(dom.scrollTop, MaxScrollTop(len, size)),
     scrollLeft |-> Min(dom.scrollLeft, BodyExtent(hs, len, size))]

ClampedHeaderFor(dom, hs, size) ==
    [scrollLeft |-> Min(dom.scrollLeft, HeaderExtent(hs, size))]

ClampedBody(dom, len, size) == ClampedBodyFor(dom, headers, len, size)

ScrollEventIf(changed, region) == IF changed THEN {region} ELSE {}

\* syncChain after a scroll that handleScroll did not make; a chain of two
\* is kept on record
ChainReset(changed) == IF changed /\ syncChain < 2 THEN 0 ELSE syncChain

\* syncChain after a run of handleScroll
ChainAfter(assigned, pending) ==
    IF assigned THEN Min(syncChain + 1, 2)
    ELSE IF pending = {} /\ syncChain < 2 THEN 0
    ELSE syncChain

NoDom == [scrollTop |-> 0, scrollLeft |-> 0]

(***************************************************************************)
(* DataGrid with VirtualizedRows: the state after the first render, before *)
(* its effects have run.                                                   *)
(***************************************************************************)
IdleHeader ==
    /\ hdrHeaders = << >>
    /\ onSortCalls = << >>
    /\ hdrResizing = << >>
    /\ hdrGesture = << >>

IdleWindow == winIn = << >> /\ winOut = << >>

IdleBody ==
    /\ measuredRowHeight = DefaultMeasuredRowHeight
    /\ lastMeasure = << >>
    /\ bodyData = << >>
    /\ mountData = << >>
    /\ bodyDimensions = [width |-> 0, height |-> 0]
    /\ bodyStartIndex = 0
    /\ visibleRows = << >>
    /\ scrollTicking = FALSE
    /\ container = [scrollTop |-> 0, clientHeight |-> 0, rowHeight |-> 0]
    /\ frames = << >>
    /\ bodyResizeTimer = << >>
    /\ bodyMutationTimer = << >>
    /\ effectDeps = << >>
    /\ lastCalc = << >>
    /\ bodyLog = [session |-> "none", events |-> 0, before |-> << >>]

IdleClamp == clampIn = << >> /\ clampOut = << >>

IdleUtil == utilObserver = << >>

\* the state every mount of DataGrid starts from
MountState ==
    /\ component = "DataGrid"
    /\ sortConfig = NoSort
    /\ dimensions = [width |-> 0, height |-> 0]
    /\ scrollPosition = [top |-> 0, left |-> 0]
    /\ bodyDom = NoDom
    /\ headerDom = [scrollLeft |-> 0]
    /\ pendingScroll = {}
    /\ resizeTimer = << >>
    /\ dataLenDep = << >>
    /\ rangeDeps = << >>
    /\ lastEvent = Event("mount", NULL, NoSort)
    /\ drag = << >>
    /\ resizeMoves = 0
    /\ syncChain = 0
    /\ monitor = NoFault
    /\ observer = "none"
    /\ IdleHeader
    /\ IdleWindow
    /\ IdleBody
    /\ IdleClamp
    /\ IdleUtil

\* a session of scrolling, sorting, container resizes and new datasets
InitGrid ==
    /\ MountState
    /\ session = "view"
    /\ gutter = 0
    /\ data \in Datasets
    /\ headersProp = InitialHeaders
    /\ headers = InitialHeaders
    /\ \E h \in Heights : containerSize = [width |-> ContainerWidth, height |-> h]
    /\ visibleRange = [startIndex |-> 0, endIndex |-> visibleRowsCount(0)]

\* a session of column resizes and horizontal scrolling, in a
\* browser with overlay or with classic scrollbars
InitColumns ==
    /\ MountState
    /\ session = "columns"
    /\ gutter \in Gutters
    /\ data = MakeRows(BigLen, 1)
    /\ headersProp \in ColumnHeaderSets
    /\ headers = headersProp
    /\ containerSize = [width |-> ContainerWidth, height |-> SmallHeight]
    /\ visibleRange = [startIndex |-> 0, endIndex |-> visibleRowsCount(0)]

\* a session of new props, the empty ones included, with sorting and
\* horizontal scrolling
InitProps ==
    /\ MountState
    /\ session = "props"
    /\ gutter = 0
    /\ data \in ColumnDatasets
    /\ headersProp \in HeaderSets
    /\ headers = headersProp
    /\ containerSize = [width |-> ContainerWidth, height |-> SmallHeight]
    /\ visibleRange =
          [startIndex |-> 0,
           endIndex   |-> IF EmptyShown THEN 0 ELSE visibleRowsCount(0)]

\* One flush of the passive effects of a commit: the scrollTop effect of
\* VirtualizedRows (the child) first, then the data-change effect of
\* DataGrid; on mount the ResizeObserver starts and reports the first size,
\* unless the placeholder was rendered and there is no container.
\* The state updates of both are applied together in the next render.
FlushEffects ==
    /\ component = "DataGrid"
    /\ EffectsPending
    /\ visibleRange' =
          IF RangeEffectPending
          THEN RangeOf(scrollPosition.top, VisibleRowsCount, Len(data))
          ELSE visibleRange
    /\ rangeDeps' = IF EmptyShown THEN rangeDeps ELSE CurrentRangeDeps
    /\ IF DataEffectPending /\ ~EmptyShown
       THEN /\ bodyDom' = [bodyDom EXCEPT !.scrollTop = 0]
            /\ scrollPosition' = [top |-> 0, left |-> scrollPosition.left]
            /\ pendingScroll' =
                  pendingScroll \cup ScrollEventIf(bodyDom.scrollTop # 0, "body")
            /\ syncChain' = ChainReset(bodyDom.scrollTop # 0)
       ELSE UNCHANGED << bodyDom, scrollPosition, pendingScroll, syncChain >>
    /\ dataLenDep' = << Len(data) >>
    /\ resizeTimer' =
          IF dataLenDep = << >> /\ ~EmptyShown
          THEN << containerSize >>
          ELSE resizeTimer
    /\ observer' =
          IF dataLenDep = << >> /\ ~EmptyShown THEN "live" ELSE observer
    /\ UNCHANGED << component, data, headers, sortConfig, dimensions,
                    containerSize, headerDom, lastEvent, envVars, colVars,
                    monitor, otherVars >>

\* the user scrolls the body vertically
UserScrollBody(t) ==
    /\ component = "DataGrid"
    /\ session = "view"
    /\ ~EffectsPending
    /\ t # bodyDom.scrollTop
    /\ t <= MaxScrollTop(Len(data), containerSize)
    /\ bodyDom' = [bodyDom EXCEPT !.scrollTop = t]
    /\ pendingScroll' = pendingScroll \cup {"body"}
    /\ syncChain' = ChainReset(TRUE)
    /\ lastEvent' = Event("scroll", NULL, sortConfig)
    /\ UNCHANGED << component, data, headers, sortConfig, dimensions,
                    scrollPosition, containerSize, headerDom, resizeTimer,
                    dataLenDep, visibleRange, rangeDeps, envVars, colVars,
                    monitor, observer, otherVars >>

\* the scroll stops of a column session: the start and the end of a region
ColumnScrollLefts ==
    {0, HeaderExtent(headers, containerSize),
        BodyExtent(headers, Len(data), containerSize)}

\* the horizontal scroll stops of the session
ScrollStops == IF session = "columns" THEN ColumnScrollLefts ELSE ScrollLefts

\* the user scrolls the body or the header horizontally
UserScrollX(region, x) ==
    /\ component = "DataGrid"
    /\ x \in ScrollStops
    /\ ~EffectsPending
    /\ ~EmptyShown
    /\ drag = << >>
    /\ \/ /\ region = "body"
          /\ x <= BodyExtent(headers, Len(data), containerSize)
          /\ x # bodyDom.scrollLeft
          /\ bodyDom' = [bodyDom EXCEPT !.scrollLeft = x]
          /\ UNCHANGED headerDom
       \/ /\ region = "header"
          /\ x <= MaxScrollLeft(containerSize)
          /\ x # headerDom.scrollLeft
          /\ headerDom' = [headerDom EXCEPT !.scrollLeft = x]
          /\ UNCHANGED bodyDom
    /\ pendingScroll' = pendingScroll \cup {region}
    /\ syncChain' = ChainReset(TRUE)
    /\ lastEvent' = Event("scrollX", region, sortConfig)
    /\ UNCHANGED << component, data, headers, sortConfig, dimensions,
                    scrollPosition, containerSize, resizeTimer, dataLenDep,
                    visibleRange, rangeDeps, envVars, colVars, monitor,
                    observer, otherVars >>

\* DataGrid.handleScroll on the scroll event of one region.  The assignment
\* to the other region is made when the two offsets differ; it raises a
\* scroll event there when it changes the offset.
handleScroll(target) ==
    /\ component = "DataGrid"
    /\ ~EffectsPending
    /\ target \in pendingScroll
    /\ LET other    == IF target = "body" THEN "header" ELSE "body"
           source   == IF target = "body"
                       THEN bodyDom.scrollLeft ELSE headerDom.scrollLeft
           current  == IF target = "body"
                       THEN headerDom.scrollLeft ELSE bodyDom.scrollLeft
           extent   == IF target = "body"
                       THEN HeaderExtent(headers, containerSize)
                       ELSE BodyExtent(headers, Len(data), containerSize)
           assigned == current # source
           result   == IF assigned THEN assignScrollLeft(source, extent)
                       ELSE current
           raised   == result # current
       IN  /\ scrollPosition' =
                 IF target = "body"
                 THEN bodyBranchPosition(scrollPosition, bodyDom.scrollTop,
                                         bodyDom.scrollLeft)
                 ELSE headerBranchPosition(scrollPosition, headerDom.scrollLeft)
           /\ IF target = "body"
              THEN /\ headerDom' = [headerDom EXCEPT !.scrollLeft = result]
                   /\ UNCHANGED bodyDom
              ELSE /\ bodyDom' = [bodyDom EXCEPT !.scrollLeft = result]
                   /\ UNCHANGED headerDom
           /\ pendingScroll' =
                 (pendingScroll \ {target}) \cup ScrollEventIf(raised, other)
           /\ syncChain' = ChainAfter(assigned, pendingScroll')
           /\ monitor' =
                 [headerChangedTop |->
                     \/ monitor.headerChangedTop
                     \/ /\ target = "header"
                        /\ scrollPosition'.top # scrollPosition.top]
    /\ UNCHANGED << component, data, headers, sortConfig, dimensions,
                    containerSize, resizeTimer, dataLenDep, visibleRange,
                    rangeDeps, lastEvent, envVars, colVars, observer,
                    otherVars >>

\* the container is resized: the ResizeObserver notifies, the debounced
\* callback is (re)started with the latest entry
ContainerResize(h) ==
    /\ component = "DataGrid"
    /\ session = "view"
    /\ ~EffectsPending
    /\ dataLenDep # << >>
    /\ observer = "live"
    /\ h # containerSize.height
    /\ containerSize' = [containerSize EXCEPT !.height = h]
    /\ resizeTimer' = << containerSize' >>
    /\ bodyDom' = ClampedBody(bodyDom, Len(data), containerSize')
    /\ pendingScroll' =
          pendingScroll \cup ScrollEventIf(bodyDom' # bodyDom, "body")
    /\ syncChain' = ChainReset(bodyDom' # bodyDom)
    /\ lastEvent' = Event("resize", NULL, sortConfig)
    /\ UNCHANGED << component, data, headers, sortConfig, dimensions,
                    scrollPosition, headerDom, dataLenDep, visibleRange,
                    rangeDeps, envVars, colVars, monitor, observer,
                    otherVars >>

\* the container is resized in a session of new props: the ResizeObserver
\* notifies if the mount created it and the container it observes is the one
\* in the document
HostResize(h) ==
    /\ component = "DataGrid"
    /\ session = "props"
    /\ ~EffectsPending
    /\ ~EmptyShown
    /\ h # containerSize.height
    /\ containerSize' = [containerSize EXCEPT !.height = h]
    /\ resizeTimer' =
          IF observer = "live" THEN << containerSize' >> ELSE resizeTimer
    /\ bodyDom' = ClampedBody(bodyDom, Len(data), containerSize')
    /\ pendingScroll' =
          pendingScroll \cup ScrollEventIf(bodyDom' # bodyDom, "body")
    /\ syncChain' = ChainReset(bodyDom' # bodyDom)
    /\ lastEvent' = Event("resize", NULL, sortConfig)
    /\ UNCHANGED << component, data, headers, sortConfig, dimensions,
                    scrollPosition, headerDom, dataLenDep, visibleRange,
                    rangeDeps, envVars, colVars, monitor, observer,
                    otherVars >>

\* the debounced resize callback fires: setDimensions({width, height})
ResizeFire ==
    /\ component = "DataGrid"
    /\ ~EffectsPending
    /\ resizeTimer # << >>
    /\ dimensions' = resizeTimer[1]
    /\ resizeTimer' = << >>
    /\ UNCHANGED << component, data, headers, sortConfig, scrollPosition,
                    containerSize, bodyDom, headerDom, pendingScroll,
                    dataLenDep, visibleRange, rangeDeps, lastEvent, envVars,
                    colVars, logVars, observer, otherVars >>

\* a click on the header cell of column i; the render that follows
\* recomputes sortedData
HeaderClick(i) ==
    /\ component = "DataGrid"
    /\ session # "columns"
    /\ ~EffectsPending
    /\ ~EmptyShown
    /\ drag = << >>
    /\ sortConfig' = onHeaderClick(headers[i], sortConfig)
    /\ data' = sourceAfterSort(data, sortConfig')
    /\ lastEvent' = Event("click", headers[i].id, sortConfig)
    /\ UNCHANGED << component, headers, dimensions, scrollPosition,
                    containerSize, bodyDom, headerDom, pendingScroll,
                    resizeTimer, dataLenDep, visibleRange, rangeDeps, envVars,
                    colVars, logVars, observer, otherVars >>

\* the host renders the mounted grid with another data prop
ReplaceData(d) ==
    /\ component = "DataGrid"
    /\ session = "view"
    /\ ~EffectsPending
    /\ d # data
    /\ data' = sourceAfterSort(d, sortConfig)
    /\ bodyDom' = ClampedBody(bodyDom, Len(d), containerSize)
    /\ pendingScroll' =
          pendingScroll \cup ScrollEventIf(bodyDom' # bodyDom, "body")
    /\ syncChain' = ChainReset(bodyDom' # bodyDom)
    /\ lastEvent' = Event("replace", NULL, sortConfig)
    /\ UNCHANGED << component, headers, sortConfig, dimensions, scrollPosition,
                    containerSize, headerDom, resizeTimer, dataLenDep,
                    visibleRange, rangeDeps, envVars, colVars, monitor,
                    observer, otherVars >>

\* the host renders the mounted grid with other data and headers props.
\* useState(initialHeaders) keeps the headers of the mount.  A render of the
\* placeholder removes the container, body and header elements and unmounts
\* VirtualizedRows; the ResizeObserver then reports its detached target as
\* 0 x 0.  A render of the grid after the placeholder creates new elements
\* and mounts VirtualizedRows again.
ReplaceProps(d, hs) ==
    /\ component = "DataGrid"
    /\ session = "props"
    /\ ~EffectsPending
    /\ drag = << >>
    /\ d # data \/ hs # headersProp
    /\ data' = sourceAfterSort(d, sortConfig)
    /\ headersProp' = hs
    /\ LET wasEmpty == EmptyShown
           isEmpty  == d = << >> \/ headers = << >>
           fresh    == wasEmpty \/ isEmpty
       IN  /\ bodyDom' =
                 IF fresh THEN NoDom
                 ELSE ClampedBody(bodyDom, Len(d), containerSize)
           /\ headerDom' = IF fresh THEN [scrollLeft |-> 0] ELSE headerDom
           /\ pendingScroll' =
                 IF fresh THEN {}
                 ELSE pendingScroll \cup ScrollEventIf(bodyDom' # bodyDom, "body")
           /\ syncChain' = ChainReset(fresh \/ bodyDom' # bodyDom)
           /\ visibleRange' =
                 IF isEmpty THEN [startIndex |-> 0, endIndex |-> 0]
                 ELSE IF wasEmpty
                 THEN [startIndex |-> 0, endIndex |-> VisibleRowsCount]
                 ELSE visibleRange
           /\ rangeDeps' = IF fresh THEN << >> ELSE rangeDeps
           /\ observer' =
                 IF isEmpty /\ observer = "live" THEN "detached" ELSE observer
           /\ resizeTimer' =
                 IF isEmpty /\ observer = "live"
                 THEN << [width |-> 0, height |-> 0] >>
                 ELSE resizeTimer
    /\ lastEvent' = Event("replace", NULL, sortConfig)
    /\ UNCHANGED << component, headers, sortConfig, dimensions, scrollPosition,
                    containerSize, dataLenDep, envVars, drag, resizeMoves,
                    monitor, otherVars >>

\* VirtualizedRows.handleIntersection for one intersecting sentinel
handleIntersection(sentinel) ==
    /\ component = "DataGrid"
    /\ ~EffectsPending
    /\ ~EmptyShown
    /\ visibleRange' =
          IF sentinel = "top" /\ visibleRange.startIndex > 0
          THEN [startIndex |-> Max(0, visibleRange.startIndex),
                endIndex   |-> visibleRange.endIndex]
          ELSE IF sentinel = "bottom" /\ visibleRange.endIndex < Len(data)
          THEN [startIndex |-> visibleRange.startIndex,
                endIndex   |-> Min(Len(data), visibleRange.endIndex)]
          ELSE visibleRange
    /\ UNCHANGED << component, data, headers, sortConfig, dimensions,
                    scrollPosition, containerSize, bodyDom, headerDom,
                    pendingScroll, resizeTimer, dataLenDep, rangeDeps,
                    lastEvent, envVars, colVars, logVars, observer,
                    otherVars >>

\* a press of the mouse button at the right edge of the header cell of
\* column i
ResizeMouseDown(i) ==
    /\ component = "DataGrid"
    /\ session = "columns"
    /\ ~EffectsPending
    /\ ~EmptyShown
    /\ drag = << >>
    /\ drag' = onHandleMouseDown(headers[i], drag)
    /\ lastEvent' = Event("mousedown", headers[i].id, sortConfig)
    /\ UNCHANGED << component, gridVars, envVars, headersProp, resizeMoves,
                    logVars, observer, otherVars >>

\* handleMouseMove of the gesture: handleColumnResize with the clamped
\* width, the auto-scroll of the header when the pointer is near the right
\* edge of the container, then the render with the new widths and its layout
ResizeMouseMove(diff, nearEdge) ==
    /\ component = "DataGrid"
    /\ ~EffectsPending
    /\ drag # << >>
    /\ resizeMoves < MaxResizeMoves
    /\ headers' = handleColumnResize(headers, drag[1].id,
                                     resizeMoveWidth(drag[1].startWidth, diff))
    /\ LET extent   == HeaderExtent(headers, containerSize)
           scrolled == IF nearEdge /\ headerDom.scrollLeft < extent
                       THEN [scrollLeft |->
                               assignScrollLeft(headerDom.scrollLeft
                                                  + AutoScrollStep, extent)]
                       ELSE headerDom
       IN  headerDom' = ClampedHeaderFor(scrolled, headers', containerSize)
    /\ bodyDom' = ClampedBodyFor(bodyDom, headers', Len(data), containerSize)
    /\ pendingScroll' =
          pendingScroll \cup ScrollEventIf(headerDom' # headerDom, "header")
                        \cup ScrollEventIf(bodyDom' # bodyDom, "body")
    /\ syncChain' = ChainReset(headerDom' # headerDom \/ bodyDom' # bodyDom)
    /\ resizeMoves' = resizeMoves + 1
    /\ lastEvent' = Event("mousemove", drag[1].id, sortConfig)
    /\ UNCHANGED << component, data, sortConfig, dimensions, scrollPosition,
                    containerSize, resizeTimer, dataLenDep, visibleRange,
                    rangeDeps, envVars, headersProp, drag, monitor, observer,
                    otherVars >>

\* handleMouseUp of the gesture removes the document listeners
ResizeMouseUp ==
    /\ component = "DataGrid"
    /\ ~EffectsPending
    /\ drag # << >>
    /\ drag' = << >>
    /\ lastEvent' = Event("mouseup", drag[1].id, sortConfig)
    /\ UNCHANGED << component, gridVars, envVars, headersProp, resizeMoves,
                    logVars, observer, otherVars >>

\* what the system does in every session
SystemNext ==
    \/ FlushEffects
    \/ \E target \in {"body", "header"} : handleScroll(target)
    \/ ResizeFire
    \/ \E sentinel \in {"top", "bottom"} : handleIntersection(sentinel)

GridNext ==
    \/ SystemNext
    \/ \E t \in ScrollTops : UserScrollBody(t)
    \/ \E region \in {"body", "header"}, x \in ScrollLefts : UserScrollX(region, x)
    \/ \E h \in Heights : ContainerResize(h)
    \/ \E i \in 1..Len(headers) : HeaderClick(i)
    \/ \E d \in Datasets : ReplaceData(d)

ColumnsNext ==
    \/ SystemNext
    \/ \E region \in {"body", "header"}, x \in ColumnScrollLefts :
          UserScrollX(region, x)
    \/ \E i \in 1..Len(headers) : ResizeMouseDown(i)
    \/ \E diff \in ResizeDiffs, nearEdge \in BOOLEAN : ResizeMouseMove(diff, nearEdge)
    \/ ResizeMouseUp

PropsNext ==
    \/ SystemNext
    \/ \E region \in {"body", "header"}, x \in ScrollLefts : UserScrollX(region, x)
    \/ \E i \in 1..Len(headers) : HeaderClick(i)
    \/ \E d \in ColumnDatasets, hs \in HeaderSets : ReplaceProps(d, hs)
    \/ \E h \in Heights : HostResize(h)

(***************************************************************************)
(* DataGridHeader: the click on a header cell and the start of a resize.   *)
(***************************************************************************)
IdleGrid ==
    /\ data = << >>
    /\ headers = << >>
    /\ sortConfig = NoSort
    /\ dimensions = [width |-> 0, height |-> 0]
    /\ scrollPosition = [top |-> 0, left |-> 0]
    /\ containerSize = [width |-> 0, height |-> 0]
    /\ bodyDom = [scrollTop |-> 0, scrollLeft |-> 0]
    /\ headerDom = [scrollLeft |-> 0]
    /\ pendingScroll = {}
    /\ resizeTimer = << >>
    /\ dataLenDep = << >>
    /\ visibleRange = [startIndex |-> 0, endIndex |-> 0]
    /\ rangeDeps = << >>
    /\ session = "none"
    /\ gutter = 0
    /\ headersProp = << >>
    /\ drag = << >>
    /\ resizeMoves = 0
    /\ syncChain = 0
    /\ monitor = NoFault
    /\ observer = "none"
    /\ lastEvent = Event("mount", NULL, NoSort)

\* the variables of the mounted grid, which the other components leave alone
idleVars == << gridVars, envVars, colVars, logVars, observer >>

InitHeader ==
    /\ component = "DataGridHeader"
    /\ IdleGrid
    /\ hdrHeaders = InitialHeaders
    /\ onSortCalls = << >>
    /\ hdrResizing = << >>
    /\ hdrGesture = [startX |-> 0, startWidth |-> 0, render |-> 0,
                     listeners |-> {}, styled |-> << >>, pressed |-> << >>,
                     ended |-> << >>, gestures |-> 0]
    /\ IdleWindow
    /\ IdleBody
    /\ IdleClamp
    /\ IdleUtil

\* DataGridHeader.handleSortClick: the calls to onSort after the click
handleSortClick(hs, calls, headerId) ==
    LET header == CHOOSE h \in {hs[k] : k \in 1..Len(hs)} : h.id = headerId
    IN  IF ~header.sortable THEN calls ELSE Append(calls, headerId)

\* a behaviour of the header sorts or resizes: the handlers of the two
\* share no state
HeaderSortClick(i) ==
    /\ component = "DataGridHeader"
    /\ hdrGesture.gestures = 0
    /\ Len(onSortCalls) < MaxSortCalls
    /\ onSortCalls' = handleSortClick(hdrHeaders, onSortCalls, hdrHeaders[i].id)
    /\ lastEvent' = Event("click", hdrHeaders[i].id, NoSort)
    /\ UNCHANGED << component, idleVars, hdrHeaders, hdrResizing, hdrGesture,
                    winVars, bodyVars, clampVars, utilVars >>

\* what handleResizeMove and handleResizeEnd of one render close over
HeaderClosure ==
    [render |-> hdrGesture.render, resizingColumn |-> hdrResizing,
     startX |-> hdrGesture.startX, startWidth |-> hdrGesture.startWidth]

\* the listeners on the document that do something: those of a render in
\* which resizingColumn was set
ActiveListeners ==
    {c \in hdrGesture.listeners : c.resizingColumn # << >>}

\* the render counter after a commit: a new render, with new handlers, when
\* state or props changed
RenderAfter(resizing, startX, startWidth, hs) ==
    IF resizing = hdrResizing /\ startX = hdrGesture.startX
       /\ startWidth = hdrGesture.startWidth /\ hs = hdrHeaders
    THEN hdrGesture.render
    ELSE hdrGesture.render + 1

\* a press at x on the resize handle of column i, or a resize request on a
\* column that shows no handle: handleResizeStart sets resizingColumn,
\* startX and startWidth and puts handleResizeMove and handleResizeEnd of
\* the render it belongs to on the document
HeaderResizeStart(i, x) ==
    /\ component = "DataGridHeader"
    /\ onSortCalls = << >>
    /\ hdrGesture.pressed = << >>
    /\ hdrGesture.gestures < MaxGestures
    /\ hdrResizing' = handleResizeStart(hdrHeaders, hdrResizing, hdrHeaders[i].id)
    /\ hdrGesture' =
          IF ~hdrHeaders[i].resizable
          THEN [hdrGesture EXCEPT !.gestures = @ + 1]
          ELSE [hdrGesture EXCEPT
                   !.startX = x,
                   !.startWidth = hdrHeaders[i].width,
                   !.render = RenderAfter(<< hdrHeaders[i].id >>, x,
                                          hdrHeaders[i].width, hdrHeaders),
                   !.listeners = @ \cup {HeaderClosure},
                   !.pressed = << [id |-> hdrHeaders[i].id, x0 |-> x,
                                   w0 |-> hdrHeaders[i].width,
                                   before |-> hdrHeaders] >>,
                   !.ended = << >>,
                   !.gestures = @ + 1]
    /\ lastEvent' = Event("mousedown", hdrHeaders[i].id, NoSort)
    /\ UNCHANGED << component, idleVars, hdrHeaders, onSortCalls, winVars,
                    bodyVars, clampVars, utilVars >>

\* the pointer moves to x: every handleResizeMove on the document runs and
\* writes the style width of the column its render was resizing
HeaderResizeMove(x) ==
    /\ component = "DataGridHeader"
    /\ hdrGesture' =
          [hdrGesture EXCEPT !.styled =
              IF ActiveListeners = {} THEN @
              ELSE LET c == CHOOSE l \in ActiveListeners : TRUE
                   IN  << [id    |-> c.resizingColumn[1],
                           width |-> resizeEndWidth(
                                        ColumnOf(hdrHeaders, c.resizingColumn[1]),
                                        c.startWidth, x - c.startX)] >>]
    /\ lastEvent' = Event("mousemove", NULL, NoSort)
    /\ UNCHANGED << component, idleVars, hdrVars, hdrResizing, winVars,
                    bodyVars, clampVars, utilVars >>

\* the button is released at x: every handleResizeEnd on the document runs;
\* one of a render in which resizingColumn was set removes its listeners,
\* calls onResize, which is handleColumnResize of the parent, and clears
\* resizingColumn
HeaderResizeEnd(x) ==
    /\ component = "DataGridHeader"
    /\ hdrGesture.pressed # << >>
    /\ IF ActiveListeners = {}
       THEN /\ hdrGesture' =
                  [hdrGesture EXCEPT
                      !.pressed = << >>,
                      !.ended = << hdrGesture.pressed[1] @@ [x |-> x] >>]
            /\ UNCHANGED << hdrHeaders, hdrResizing >>
       ELSE LET c  == CHOOSE l \in ActiveListeners : TRUE
                id == c.resizingColumn[1]
            IN  /\ hdrHeaders' =
                      handleColumnResize(hdrHeaders, id,
                          resizeEndWidth(ColumnOf(hdrHeaders, id),
                                         c.startWidth, x - c.startX))
                /\ hdrResizing' = << >>
                /\ hdrGesture' =
                      [hdrGesture EXCEPT
                          !.render = RenderAfter(<< >>, hdrGesture.startX,
                                                 hdrGesture.startWidth,
                                                 hdrHeaders'),
                          !.listeners = @ \ {c},
                          !.pressed = << >>,
                          !.ended = << hdrGesture.pressed[1] @@ [x |-> x] >>]
    /\ lastEvent' = Event("mouseup", NULL, NoSort)
    /\ UNCHANGED << component, idleVars, onSortCalls, winVars, bodyVars,
                    clampVars, utilVars >>

HeaderNext ==
    \/ \E i \in 1..Len(hdrHeaders) : HeaderSortClick(i)
    \/ \E i \in 1..Len(hdrHeaders), x \in PointerXs : HeaderResizeStart(i, x)
    \/ \E x \in PointerXs : HeaderResizeMove(x)
    \/ \E x \in PointerXs : HeaderResizeEnd(x)

(***************************************************************************)
(* DataGridBody.  The rows keep inside the scrollable extent for every     *)
(* dataset, viewport and row height drawn here, so the browser never       *)
(* clamps scrollTop.                                                       *)
(***************************************************************************)
MeasureGrain == 1

\* Math.round(rowElement.getBoundingClientRect().height) in the browser
RowSamples ==
    {0} \cup {DefaultMeasuredRowHeight + k * MeasureGrain : k \in -2..5}

BodyLen == 12

BodyScrollGrain == 70

MaxBodyStops == 2

BodyShortHeight == 105

BodyTallHeight == 140

MaxFrames == 2

\* notifications from outside the component in one behaviour
MaxBodyEvents == 4

\* what the environment of one behaviour does: it scrolls, resizes and
\* replaces the dataset, or it changes the rows' geometry and mutates the
\* DOM
BodySessions == {"scroll", "measure"}

BodyDatasets == {MakeRows(BodyLen, 1), MakeRows(BodyLen + 1, 2)}

BodyScrollTops == {i * BodyScrollGrain : i \in 0..MaxBodyStops}

BodyHeights == {BodyShortHeight, BodyTallHeight}

\* the height the style sheet gives the rows at mount: the default one, or
\* one more than the tolerance away from it
MountRowHeights ==
    {DefaultMeasuredRowHeight, DefaultMeasuredRowHeight + 3 * MeasureGrain}

\* DOM mutations inside the container that change no geometry: an attribute
\* outside the filter, a class, a child list, or several in one batch
MutationBatches == {{"other"}, {"class"}, {"other", "childList"}}

Measure(via, computedHeight, before) ==
    [via |-> via, computedHeight |-> computedHeight, before |-> before]

\* the closure of the current render, and of the first one, which the
\* callbacks of the two observers keep (their effects have no deps)
CurrentClosure ==
    Closure(bodyData, measuredRowHeight, bodyDimensions.height)

MountClosure == Closure(mountData, DefaultMeasuredRowHeight, 0)

\* the scroll effect and the data-length effect run after a render whose
\* data, calculateVisibleRows or measureRowHeight is a new one
BodyEffectsPending == effectDeps # << CurrentClosure >>

\* what the committed render shows: the rows, the top of their block, their
\* height and the height of the spacer
Rendered(rows, start, rowHeight, len) ==
    [rows |-> rows, top |-> start * rowHeight, rowHeight |-> rowHeight,
     spacer |-> len * rowHeight]

\* a commit that changes the DOM makes the MutationObserver notify; the
\* debounced callback is (re)started with the records of this batch
TimerAfterCommit(timer, before, after) ==
    IF before = after THEN timer
    ELSE << observedRecords(
              (IF before.rows # after.rows THEN {"childList"} ELSE {})
              \cup (IF before.top # after.top \/ before.rowHeight # after.rowHeight
                       \/ before.spacer # after.spacer
                    THEN {"style"} ELSE {})) >>

\* one run of calculateVisibleRows on record
Calc(via, closure, scrollTop, frame) ==
    [via |-> via, scrollTop |-> scrollTop,
     rowHeight |-> closure.measuredRowHeight, data |-> closure.data,
     currentRowHeight |-> measuredRowHeight, currentData |-> bodyData,
     domScrollTop |-> container.scrollTop, frame |-> frame]

InitBody ==
    /\ component = "DataGridBody"
    /\ IdleGrid
    /\ IdleHeader
    /\ IdleWindow
    /\ IdleClamp
    /\ IdleUtil
    /\ bodyData = MakeRows(BodyLen, 1)
    /\ mountData = bodyData
    /\ bodyDimensions = [width |-> 0, height |-> 0]
    /\ measuredRowHeight = DefaultMeasuredRowHeight
    /\ bodyStartIndex = 0
    /\ visibleRows = << >>
    /\ scrollTicking = FALSE
    /\ \E r \in MountRowHeights :
          container = [scrollTop |-> 0, clientHeight |-> BodyShortHeight,
                       rowHeight |-> r]
    /\ frames = << >>
    /\ bodyResizeTimer = << >>
    /\ bodyMutationTimer = << >>
    /\ effectDeps = << >>
    /\ lastMeasure = << >>
    /\ lastCalc = << >>
    /\ \E s \in BodySessions :
          bodyLog = [session |-> s, events |-> 0, before |-> << >>]

\* the variables the handlers of DataGridBody leave alone
notBodyVars == << component, idleVars, hdrVars, hdrResizing, hdrGesture,
                  winVars, clampVars, utilVars >>

\* the state of the body that a notification without effect leaves as it is
BodySnapshot ==
    [measuredRowHeight |-> measuredRowHeight, startIndex |-> bodyStartIndex,
     visibleRows |-> visibleRows, container |-> container,
     bodyMutationTimer |-> bodyMutationTimer,
     bodyResizeTimer |-> bodyResizeTimer, frames |-> frames,
     lastMeasure |-> lastMeasure, lastCalc |-> lastCalc]

\* measureRowHeight of a render run now: no row element, no measurement
MeasuredBy(via, closure) ==
    IF visibleRows = << >> THEN lastMeasure
    ELSE << Measure(via, container.rowHeight, measuredRowHeight) >>

HeightAfterMeasure(closure) ==
    IF visibleRows = << >> THEN measuredRowHeight
    ELSE measureRowHeight(closure.measuredRowHeight, measuredRowHeight,
                          container.rowHeight)

\* The passive effects of a commit: the scroll effect calls
\* calculateVisibleRows and measureRowHeight of the render and attaches its
\* handleScroll, the data-length effect calls calculateVisibleRows again.
\* On mount the two observers are created first and the ResizeObserver
\* reports the size of the container.
EffectMeasure ==
    /\ component = "DataGridBody"
    /\ BodyEffectsPending
    /\ LET w == windowOf(CurrentClosure, container)
       IN  /\ bodyStartIndex' = w.start
           /\ visibleRows' = rowsOf(CurrentClosure, w)
           /\ lastCalc' =
                 << Calc("effect", CurrentClosure, container.scrollTop, << >>) >>
    /\ lastMeasure' = MeasuredBy("effect", CurrentClosure)
    /\ measuredRowHeight' = HeightAfterMeasure(CurrentClosure)
    /\ scrollTicking' = FALSE
    /\ effectDeps' = << CurrentClosure >>
    /\ bodyResizeTimer' =
          IF effectDeps = << >>
          THEN << [width |-> ContainerWidth, height |-> container.clientHeight] >>
          ELSE bodyResizeTimer
    /\ bodyMutationTimer' =
          TimerAfterCommit(bodyMutationTimer,
              Rendered(visibleRows, bodyStartIndex, measuredRowHeight, Len(bodyData)),
              Rendered(visibleRows', bodyStartIndex', measuredRowHeight', Len(bodyData)))
    /\ lastEvent' = Event("effect", NULL, NoSort)
    /\ bodyLog' = [bodyLog EXCEPT !.before = << >>]
    /\ UNCHANGED << notBodyVars, bodyData, mountData, bodyDimensions,
                    container, frames >>

\* the user scrolls the body to t and the scroll event reaches handleScroll:
\* a frame callback is requested unless one is marked pending
BodyScroll(t) ==
    /\ component = "DataGridBody"
    /\ ~BodyEffectsPending
    /\ bodyLog.events < MaxBodyEvents
    /\ t # container.scrollTop
    /\ bodyLog.session = "scroll"
    /\ scrollTicking \/ Len(frames) < MaxFrames
    /\ container' = [container EXCEPT !.scrollTop = t]
    /\ bodyLog' = [bodyLog EXCEPT !.events = @ + 1, !.before = << >>]
    /\ LET waiting == [k \in 1..Len(frames) |->
                          [frames[k] EXCEPT !.rescrolled = TRUE]]
       IN  IF scrollTicking
           THEN /\ frames' = waiting
                /\ UNCHANGED scrollTicking
           ELSE /\ scrollTicking' = TRUE
                /\ frames' = Append(waiting, [closure    |-> effectDeps[1],
                                              notified   |-> t,
                                              rescrolled |-> FALSE])
    /\ lastEvent' = Event("scroll", NULL, NoSort)
    /\ UNCHANGED << notBodyVars, bodyData, mountData, bodyDimensions,
                    measuredRowHeight, bodyStartIndex, visibleRows,
                    bodyResizeTimer, bodyMutationTimer, effectDeps,
                    lastMeasure, lastCalc >>

\* the oldest requested frame callback runs: calculateVisibleRows of the
\* render that attached the handler, then onScroll
BodyFrame ==
    /\ component = "DataGridBody"
    /\ ~BodyEffectsPending
    /\ frames # << >>
    /\ LET frame == Head(frames)
           dom   == [container EXCEPT
                        !.scrollTop = frameScrollTop(frame, container)]
           w     == windowOf(frame.closure, dom)
       IN  /\ bodyStartIndex' = w.start
           /\ visibleRows' = rowsOf(frame.closure, w)
           /\ lastCalc' =
                 << Calc("frame", frame.closure, dom.scrollTop, << frame >>) >>
    /\ frames' = Tail(frames)
    /\ scrollTicking' = FALSE
    /\ bodyMutationTimer' =
          TimerAfterCommit(bodyMutationTimer,
              Rendered(visibleRows, bodyStartIndex, measuredRowHeight, Len(bodyData)),
              Rendered(visibleRows', bodyStartIndex', measuredRowHeight, Len(bodyData)))
    /\ lastEvent' = Event("frame", NULL, NoSort)
    /\ bodyLog' = [bodyLog EXCEPT !.before = << >>]
    /\ UNCHANGED << notBodyVars, bodyData, mountData, bodyDimensions,
                    measuredRowHeight, container, bodyResizeTimer, effectDeps,
                    lastMeasure >>

\* the container is resized: the ResizeObserver notifies and the debounced
\* callback is (re)started with the latest entry
BodyResize(h) ==
    /\ component = "DataGridBody"
    /\ ~BodyEffectsPending
    /\ bodyLog.events < MaxBodyEvents
    /\ h # container.clientHeight
    /\ bodyLog.session = "scroll"
    /\ container' = [container EXCEPT !.clientHeight = h]
    /\ bodyResizeTimer' = << [width |-> ContainerWidth, height |-> h] >>
    /\ lastEvent' = Event("resize", NULL, NoSort)
    /\ bodyLog' = [bodyLog EXCEPT !.events = @ + 1, !.before = << >>]
    /\ UNCHANGED << notBodyVars, bodyData, mountData, bodyDimensions,
                    measuredRowHeight, bodyStartIndex, visibleRows, scrollTicking,
                    frames, bodyMutationTimer, effectDeps, lastMeasure,
                    lastCalc >>

\* what a debounced observer callback does once it decides to recompute:
\* measureRowHeight and calculateVisibleRows of the first render
ObserverMeasure(via) ==
    /\ LET w == windowOf(MountClosure, container)
       IN  /\ bodyStartIndex' = w.start
           /\ visibleRows' = rowsOf(MountClosure, w)
           /\ lastCalc' =
                 << Calc(via, MountClosure, container.scrollTop, << >>) >>
    /\ lastMeasure' = MeasuredBy(via, MountClosure)
    /\ measuredRowHeight' = HeightAfterMeasure(MountClosure)
    /\ scrollTicking' = FALSE

\* the debounced callback of the ResizeObserver fires with the last entry
ResizeCallback ==
    /\ component = "DataGridBody"
    /\ ~BodyEffectsPending
    /\ bodyResizeTimer # << >>
    /\ bodyDimensions' = bodyResizeTimer[1]
    /\ ObserverMeasure("resize")
    /\ bodyResizeTimer' = << >>
    /\ bodyMutationTimer' =
          TimerAfterCommit(bodyMutationTimer,
              Rendered(visibleRows, bodyStartIndex, measuredRowHeight, Len(bodyData)),
              Rendered(visibleRows', bodyStartIndex', measuredRowHeight', Len(bodyData)))
    /\ lastEvent' = Event("resized", NULL, NoSort)
    /\ bodyLog' = [bodyLog EXCEPT !.before = << >>]
    /\ UNCHANGED << notBodyVars, bodyData, mountData, container, frames,
                    effectDeps >>

\* a class of the rows changes and the browser lays them out h high
RowGeometryChange(h) ==
    /\ component = "DataGridBody"
    /\ ~BodyEffectsPending
    /\ bodyLog.events < MaxBodyEvents
    /\ visibleRows # << >>
    /\ bodyLog.session = "measure"
    /\ h # container.rowHeight
    /\ container' = [container EXCEPT !.rowHeight = h]
    /\ bodyMutationTimer' = << observedRecords({"class"}) >>
    /\ lastEvent' = Event("mutation", "class", NoSort)
    /\ bodyLog' = [bodyLog EXCEPT !.events = @ + 1, !.before = << >>]
    /\ UNCHANGED << notBodyVars, bodyData, mountData, bodyDimensions,
                    measuredRowHeight, bodyStartIndex, visibleRows, scrollTicking,
                    frames, bodyResizeTimer, effectDeps, lastMeasure,
                    lastCalc >>

\* a DOM mutation inside the container that changes no geometry: the
\* observer notifies when it has records to report
DomMutation(kinds) ==
    /\ component = "DataGridBody"
    /\ ~BodyEffectsPending
    /\ bodyLog.events < MaxBodyEvents
    /\ effectDeps # << >>
    /\ bodyLog.session = "measure"
    /\ bodyMutationTimer' =
          IF observedRecords(kinds) = {} THEN bodyMutationTimer
          ELSE << observedRecords(kinds) >>
    /\ lastEvent' =
          Event("mutation",
                IF relevantMutation(kinds) THEN "relevant" ELSE "irrelevant",
                NoSort)
    /\ bodyLog' = [bodyLog EXCEPT !.events = @ + 1,
                                  !.before = << BodySnapshot >>]
    /\ UNCHANGED << notBodyVars, bodyData, mountData, bodyDimensions,
                    measuredRowHeight, bodyStartIndex, visibleRows, scrollTicking,
                    container, frames, bodyResizeTimer, effectDeps,
                    lastMeasure, lastCalc >>

\* the debounced callback of the MutationObserver fires with the last batch
MutationCallback ==
    /\ component = "DataGridBody"
    /\ ~BodyEffectsPending
    /\ bodyMutationTimer # << >>
    /\ IF relevantMutation(bodyMutationTimer[1])
       THEN /\ ObserverMeasure("mutation")
            /\ bodyMutationTimer' =
                  TimerAfterCommit(<< >>,
                      Rendered(visibleRows, bodyStartIndex, measuredRowHeight,
                               Len(bodyData)),
                      Rendered(visibleRows', bodyStartIndex', measuredRowHeight',
                               Len(bodyData)))
       ELSE /\ bodyMutationTimer' = << >>
            /\ UNCHANGED << measuredRowHeight, bodyStartIndex, visibleRows,
                            scrollTicking, lastMeasure, lastCalc >>
    /\ lastEvent' = Event("mutated", NULL, NoSort)
    /\ bodyLog' = [bodyLog EXCEPT !.before = << >>]
    /\ UNCHANGED << notBodyVars, bodyData, mountData, bodyDimensions,
                    container, frames, bodyResizeTimer, effectDeps >>

\* the parent renders the body with another data prop
BodyReplaceData(d) ==
    /\ component = "DataGridBody"
    /\ ~BodyEffectsPending
    /\ bodyLog.events < MaxBodyEvents
    /\ d # bodyData
    /\ bodyLog.session = "scroll"
    /\ bodyData' = d
    /\ bodyMutationTimer' =
          TimerAfterCommit(bodyMutationTimer,
              Rendered(visibleRows, bodyStartIndex, measuredRowHeight, Len(bodyData)),
              Rendered(visibleRows, bodyStartIndex, measuredRowHeight, Len(d)))
    /\ lastEvent' = Event("replace", NULL, NoSort)
    /\ bodyLog' = [bodyLog EXCEPT !.events = @ + 1, !.before = << >>]
    /\ UNCHANGED << notBodyVars, mountData, bodyDimensions, measuredRowHeight,
                    bodyStartIndex, visibleRows, scrollTicking, container, frames,
                    bodyResizeTimer, effectDeps, lastMeasure, lastCalc >>

\* the body while the user scrolls, the container is resized and the parent
\* replaces the dataset
InitBodyScroll == InitBody /\ bodyLog.session = "scroll"

BodyScrollNext ==
    \/ EffectMeasure
    \/ \E t \in BodyScrollTops : BodyScroll(t)
    \/ BodyFrame
    \/ \E h \in BodyHeights : BodyResize(h)
    \/ ResizeCallback
    \/ MutationCallback
    \/ \E d \in BodyDatasets : BodyReplaceData(d)

\* the body while the geometry of its rows changes and its DOM is mutated
InitBodyMeasure == InitBody /\ bodyLog.session = "measure"

BodyMeasureNext ==
    \/ EffectMeasure
    \/ ResizeCallback
    \/ \E h \in RowSamples : RowGeometryChange(h)
    \/ \E kinds \in MutationBatches : DomMutation(kinds)
    \/ MutationCallback

BodyNext == BodyScrollNext \/ BodyMeasureNext

(***************************************************************************)
(* The two column width clamps applied to drawn inputs.                    *)
(***************************************************************************)
ClampMinWidths == {HandleMinWidth, 100}

ClampMaxWidths == {300, HandleMaxWidth}

ClampDeltas == {-GrowDrag, -ShrinkDrag, -10, 0, 30, ShrinkDrag, GrowDrag}

InitClamp ==
    /\ component = "ClampCalc"
    /\ IdleGrid
    /\ IdleHeader
    /\ IdleWindow
    /\ IdleBody
    /\ IdleUtil
    /\ clampIn \in { << [header |-> [Header("a", TRUE, TRUE) EXCEPT
                                        !.minWidth = lo, !.maxWidth = hi,
                                        !.width = w],
                         delta |-> delta] >> :
                       lo \in ClampMinWidths, hi \in ClampMaxWidths,
                       w \in {100, 150, 300}, delta \in ClampDeltas }
    /\ clampOut = << >>

\* the width a gesture started at the column's width yields for the pointer
\* displacement delta: from the handle of DataGrid and from
\* DataGridHeader.handleResizeEnd
ComputeClamps ==
    /\ component = "ClampCalc"
    /\ clampOut = << >>
    /\ clampOut' =
          << [grid   |-> resizeMoveWidth(clampIn[1].header.width,
                                         clampIn[1].delta),
              header |-> resizeEndWidth(clampIn[1].header,
                                        clampIn[1].header.width,
                                        clampIn[1].delta)] >>
    /\ UNCHANGED << component, idleVars, lastEvent, hdrVars, hdrResizing,
                    hdrGesture, winVars, bodyVars, clampIn, utilVars >>

(***************************************************************************)
(* The two window computations applied to drawn inputs.                    *)
(***************************************************************************)
MaxWinRows == 30

MaxWinScrollSteps == 70

WinScrollGrain == 17

WinLens == {0, 1, 2, SmallLen, MaxWinRows}

WinScrollTops == {i * WinScrollGrain : i \in 0..MaxWinScrollSteps}

WinHeights == {0, 1, ROW_HEIGHT, ROW_HEIGHT + 1, 100, SmallHeight, TallHeight}

WinRowHeights == {1, 20, ROW_HEIGHT, ROW_HEIGHT + 1, 50}

InitWindow ==
    /\ component = "WindowCalc"
    /\ IdleGrid
    /\ IdleHeader
    /\ IdleBody
    /\ IdleClamp
    /\ IdleUtil
    /\ winIn \in { << [scrollTop |-> t, height |-> h, rowHeight |-> r, len |-> n] >> :
                     t \in WinScrollTops, h \in WinHeights,
                     r \in WinRowHeights, n \in WinLens }
    /\ winOut = << >>

\* calculateVisibleRows with the body's own geometry, and the scrollTop
\* effect of VirtualizedRows with the row count DataGrid derives from the
\* same height
ComputeWindows ==
    /\ component = "WindowCalc"
    /\ winOut = << >>
    /\ winOut' =
          << [body |-> calculateVisibleRows(winIn[1].scrollTop,
                           clientHeightOf(winIn[1].height, 0),
                           winIn[1].rowHeight, winIn[1].len),
              rows |-> RangeOf(winIn[1].scrollTop,
                           visibleRowsCount(winIn[1].height), winIn[1].len)] >>
    /\ UNCHANGED << component, idleVars, lastEvent, hdrVars, hdrResizing,
                    hdrGesture, winIn, bodyVars, clampVars, utilVars >>

(***************************************************************************)
(* The observer utilities resizeObserver and mutationObserver, followed    *)
(* through one burst of notifications.                                     *)
(***************************************************************************)
MaxBurst == 3

\* the observers of DataGrid's own effects, and those the utilities create
GridObservers == {"DataGrid.resize", "DataGrid.mutation"}

UtilObservers == {"resizeObserver", "mutationObserver"}

\* the observer of the effect of DataGridBody that watches its container
BodyObservers == {"DataGridBody.resize"}

\* the elements handed to intersectionObserver; a null target is skipped
IntersectionTargets == {"top", "bottom"}

\* what a notification carries: the height of the container for a resize,
\* the kinds of its records for a mutation
UtilEntries(kind) ==
    IF kind \in {"DataGrid.resize", "resizeObserver", "DataGridBody.resize"}
    THEN {SmallHeight, TallHeight, DefaultHeight}
    ELSE IF kind = "intersectionObserver"
         THEN SUBSET IntersectionTargets \ {{}}
         ELSE {{"class"}, {"childList"}, {"style", "childList"}}

\* the debounce a frame callback of resizeObserver arms: one it has just
\* created, next to those that are still waiting
debouncedHandler(timers, entries) == Append(timers, entries)

\* the one debounced callback of an effect of DataGrid, called again: the
\* timer restarts and keeps the arguments of this call
debouncedCallback(timers, entries) == << entries >>

\* an observer as its effect or its utility leaves it: resizeObserver,
\* mutationObserver and the effects observe at once, intersectionObserver
\* returns the observer and starts observing in a timeout of 100 ms
NewObserver(kind, targets) ==
    [kind |-> kind, burst |-> "open", notified |-> << >>, frames |-> << >>,
     timers |-> << >>, calls |-> << >>,
     connected |-> TRUE, late |-> << >>,
     targets |-> targets,
     observing |-> IF kind = "intersectionObserver" THEN {} ELSE targets,
     startTimer |-> kind = "intersectionObserver"]

InitUtil ==
    /\ component = "observers"
    /\ IdleGrid
    /\ IdleHeader
    /\ IdleWindow
    /\ IdleBody
    /\ IdleClamp
    /\ \E kind \in GridObservers \cup UtilObservers :
          utilObserver = << NewObserver(kind, {"container"}) >>

Util == utilObserver[1]

notUtilVars == << component, idleVars, lastEvent, hdrVars, hdrResizing,
                  hdrGesture, winVars, bodyVars, clampVars >>

\* the observer notifies: the effects of DataGrid call their debounced
\* callback, optimizedCallback of a utility requests an animation frame
UtilNotify ==
    /\ component = "observers"
    /\ Util.burst = "open"
    /\ Util.observing # {}
    /\ Len(Util.notified) < MaxBurst
    /\ \E entries \in UtilEntries(Util.kind) :
          /\ Util.kind = "intersectionObserver" => entries \subseteq Util.observing
          /\ utilObserver' =
                << IF Util.kind \in GridObservers \cup BodyObservers
                   THEN [Util EXCEPT !.notified = Append(@, entries),
                                     !.timers = debouncedCallback(@, entries)]
                   ELSE IF Util.kind = "intersectionObserver"
                   THEN [Util EXCEPT !.notified = Append(@, entries),
                                     !.calls = Append(@, entries)]
                   ELSE [Util EXCEPT !.notified = Append(@, entries),
                                     !.frames = Append(@, entries)] >>
    /\ UNCHANGED notUtilVars

\* the last notification of the burst has arrived
UtilBurstEnds ==
    /\ component = "observers"
    /\ Util.burst = "open"
    /\ Util.notified # << >>
    /\ utilObserver' = << [Util EXCEPT !.burst = "over"] >>
    /\ UNCHANGED notUtilVars

\* the oldest frame callback runs: resizeObserver creates a debounced
\* handler and calls it, mutationObserver calls the callback
UtilFrame ==
    /\ component = "observers"
    /\ Util.frames # << >>
    /\ utilObserver' =
          << IF Util.kind = "resizeObserver"
             THEN [Util EXCEPT !.frames = Tail(@),
                               !.timers = debouncedHandler(@, Head(Util.frames))]
             ELSE [Util EXCEPT !.frames = Tail(@),
                               !.calls = Append(@, Head(Util.frames)),
                               !.late = IF Util.connected THEN @
                                        ELSE Append(@, Head(Util.frames))] >>
    /\ UNCHANGED notUtilVars

\* a debounce timer fires once the delay after the call that armed it has
\* passed, so not while a newer notification of the burst is to come; the
\* mutation callback of DataGrid recomputes for attribute records only.
\* disconnect() of the cleanup leaves the timer of the debounce waiting, so
\* the callback also runs after it: by then the component is unmounted, its
\* state updates are dropped and containerRef and bodyRef are null
UtilTimer ==
    /\ component = "observers"
    /\ Util.timers # << >>
    /\ \/ Util.burst = "over"
       \/ Util.observing = {}
       \/ Util.kind = "resizeObserver" /\ Len(Util.notified) > Len(Util.calls) + 1
    /\ LET entries == Head(Util.timers)
           ran == [Util EXCEPT !.timers = Tail(@),
                               !.late = IF Util.connected THEN @
                                        ELSE Append(@, entries)]
       IN  utilObserver' =
             << IF \/ Util.kind \in GridObservers \cup BodyObservers
                      /\ ~Util.connected
                   \/ Util.kind = "DataGrid.mutation"
                      /\ ~gridRelevantMutation(entries)
                THEN ran
                ELSE [ran EXCEPT !.calls = Append(@, entries)] >>
    /\ UNCHANGED notUtilVars

\* the cleanup of an effect at unmount, or the caller of a utility, calls
\* disconnect(): the observer stops observing; nothing clears the timers
\* and frames that wait
UtilDisconnect ==
    /\ component = "observers"
    /\ Util.connected
    /\ utilObserver' = << [Util EXCEPT !.connected = FALSE,
                                        !.observing = {}] >>
    /\ UNCHANGED notUtilVars

\* the timeout of intersectionObserver fires: every target that is not null
\* is observed, whether or not disconnect() was called meanwhile
UtilObserveTimeout ==
    /\ component = "observers"
    /\ Util.startTimer
    /\ utilObserver' = << [Util EXCEPT !.startTimer = FALSE,
                                        !.observing = @ \cup Util.targets] >>
    /\ UNCHANGED notUtilVars

\* the observers with their teardown: those of the effects of DataGrid and
\* DataGridBody, and the one intersectionObserver returns
InitTeardown ==
    /\ component = "observers"
    /\ IdleGrid
    /\ IdleHeader
    /\ IdleWindow
    /\ IdleBody
    /\ IdleClamp
    /\ \/ \E kind \in GridObservers \cup BodyObservers :
             utilObserver = << NewObserver(kind, {"container"}) >>
       \/ \E targets \in SUBSET IntersectionTargets :
             utilObserver = << NewObserver("intersectionObserver", targets) >>

TeardownNext ==
    \/ UtilNotify
    \/ UtilBurstEnds
    \/ UtilTimer
    \/ UtilDisconnect
    \/ UtilObserveTimeout

UtilNext ==
    \/ UtilNotify
    \/ UtilBurstEnds
    \/ UtilFrame
    \/ UtilTimer

Init ==
    \/ InitGrid
    \/ InitColumns
    \/ InitProps
    \/ InitHeader
    \/ InitBody
    \/ InitClamp
    \/ InitWindow
    \/ InitUtil
    \/ InitTeardown

Next ==
    \/ GridNext
    \/ ColumnsNext
    \/ PropsNext
    \/ HeaderNext
    \/ BodyNext
    \/ ComputeClamps
    \/ ComputeWindows
    \/ UtilNext
    \/ TeardownNext

Spec == Init /\ [][Next]_vars

(***************************************************************************)
(* Claims about the window computations.                                   *)
(***************************************************************************)
WinComputed == component = "WindowCalc" /\ winOut # << >>

WinBody == winOut[1].body

WinRows == winOut[1].rows

\* C1 (as stated): for every dataset length, scrollTop, viewport height and
\* row height the window has startIndex <= endIndex with both indices inside
\* [0, n), and it is empty if and only if n = 0.  The last index of
\* VirtualizedRows is endIndex - 1, its endIndex being exclusive.  Stated
\* over the measured viewports (height > 0) only.
C1_WindowIsValidSubRange ==
    (WinComputed /\ winIn[1].height > 0) =>
        LET n == winIn[1].len
        IN  /\ n = 0 => WinBody.start > WinBody.end
            /\ n = 0 => WinRows.startIndex >= WinRows.endIndex
            /\ n > 0 => /\ 0 <= WinBody.start
                        /\ WinBody.start <= WinBody.end
                        /\ WinBody.end <= n - 1
            /\ n > 0 => /\ 0 <= WinRows.startIndex
                        /\ WinRows.startIndex <= WinRows.endIndex - 1
                        /\ WinRows.endIndex - 1 <= n - 1

\* the inputs of C2: a measured viewport and a scroll position inside the
\* scrollable extent n * rowHeight - viewportHeight
WinInsideExtent ==
    /\ winIn[1].height > 0
    /\ winIn[1].scrollTop
          <= Max(0, winIn[1].len * winIn[1].rowHeight - winIn[1].height)

\* row i (0-based) of height rh intersects the viewport [top, top + height)
RowIntersects(i, rh, top, height) ==
    i * rh < top + height /\ (i + 1) * rh > top

\* C2: for every scroll position inside the scrollable extent, every row
\* whose pixel span intersects the viewport lies inside the computed window:
\* [start, end] of calculateVisibleRows for the row height it was given, and
\* [startIndex, endIndex) of VirtualizedRows, whose rows are ROW_HEIGHT high.
C2_NoVisibleGap ==
    (WinComputed /\ WinInsideExtent) =>
        \A i \in 0..(winIn[1].len - 1) :
            /\ RowIntersects(i, winIn[1].rowHeight, winIn[1].scrollTop,
                             winIn[1].height)
                  => (WinBody.start <= i /\ i <= WinBody.end)
            /\ (winIn[1].rowHeight = ROW_HEIGHT /\
                RowIntersects(i, ROW_HEIGHT, winIn[1].scrollTop, winIn[1].height))
                  => (WinRows.startIndex <= i /\ i < WinRows.endIndex)

\* C2 witness: a window that is a proper part of the dataset on both sides,
\* computed for a viewport that cuts through rows
C2_Witness ==
    /\ WinComputed
    /\ WinInsideExtent
    /\ winIn[1].rowHeight = ROW_HEIGHT
    /\ winIn[1].scrollTop % ROW_HEIGHT # 0
    /\ WinBody.start > 0
    /\ WinBody.end < winIn[1].len - 1
    /\ WinRows.startIndex > 0
    /\ WinRows.endIndex < winIn[1].len

\* The reference formula of the window, by what ceil and floor mean rather
\* than by integer division.
RefCeil(a, b) == CHOOSE k \in 0..(a + 1) : k * b >= a /\ (k - 1) * b < a

RefFloor(a, b) == CHOOSE k \in 0..a : k * b <= a /\ (k + 1) * b > a

RefVisibleCount(height, rowHeight) == RefCeil(height, rowHeight)

RefOverscan(visibleCount) == RefCeil(visibleCount, 2)

RefStart(scrollTop, height, rowHeight) ==
    Max(0, RefFloor(scrollTop, rowHeight)
             - RefOverscan(RefVisibleCount(height, rowHeight)))

RefEnd(scrollTop, height, rowHeight, len) ==
    Min(len - 1,
        RefFloor(scrollTop, rowHeight) + RefVisibleCount(height, rowHeight)
          + RefOverscan(RefVisibleCount(height, rowHeight)))

\* the example of the specification: 10,000 rows, row height 35, viewport
\* height 300, scrollTop 3500
ExampleBody == calculateVisibleRows(3500, clientHeightOf(300, 0), 35, 10000)

ExampleRows == RangeOf(3500, visibleRowsCount(300), 10000)

\* C3 (as stated): both window computations equal the reference formula
\* for all inputs, with an inclusive endIndex.
C3_BothEqualReference ==
    WinComputed =>
        LET in == winIn[1]
        IN  /\ WinBody.start = RefStart(in.scrollTop, in.height, in.rowHeight)
            /\ WinBody.end = RefEnd(in.scrollTop, in.height, in.rowHeight, in.len)
            /\ in.rowHeight = ROW_HEIGHT =>
                  /\ WinRows.startIndex =
                        RefStart(in.scrollTop, in.height, ROW_HEIGHT)
                  /\ WinRows.endIndex - 1 =
                        RefEnd(in.scrollTop, in.height, ROW_HEIGHT, in.len)

\* C3 (amended): calculateVisibleRows of DataGridBody equals the reference
\* formula for all inputs (9 visible rows, overscan 5, start 95 and end 114
\* in the example); the scrollTop effect of VirtualizedRows has no overscan
\* before the viewport and an exclusive endIndex: startIndex =
\* floor(scrollTop / ROW_HEIGHT) and endIndex = min(n, startIndex +
\* max(10, ceil((height or 300) / ROW_HEIGHT)) + 2), which is 100 and 112 in
\* the example.
C3_BodyEqualsReference ==
    /\ ExampleBody.visibleRowCount = 9
    /\ ExampleBody.overscanRowCount = 5
    /\ ExampleBody.start = 95
    /\ ExampleBody.end = 114
    /\ ExampleRows = [startIndex |-> 100, endIndex |-> 112]
    /\ WinComputed =>
          LET in == winIn[1]
              measured == IF in.height # 0 THEN in.height ELSE 300
          IN  /\ WinBody.visibleRowCount = RefVisibleCount(in.height, in.rowHeight)
              /\ WinBody.overscanRowCount = RefOverscan(WinBody.visibleRowCount)
              /\ WinBody.start = RefStart(in.scrollTop, in.height, in.rowHeight)
              /\ WinBody.end = RefEnd(in.scrollTop, in.height, in.rowHeight, in.len)
              /\ WinRows.startIndex = RefFloor(in.scrollTop, ROW_HEIGHT)
              /\ WinRows.endIndex =
                    Min(in.len, WinRows.startIndex
                                  + Max(10, RefCeil(measured, ROW_HEIGHT)) + 2)

\* C3 witness: inputs on which the overscan before the viewport is not cut
\* at 0 and the two computations differ
C3_Witness ==
    /\ WinComputed
    /\ winIn[1].rowHeight = ROW_HEIGHT
    /\ WinBody.overscanRowCount > 0
    /\ WinBody.start > 0
    /\ WinBody.end < winIn[1].len - 1
    /\ WinRows.startIndex = WinBody.start + WinBody.overscanRowCount

(***************************************************************************)
(* Claims about the mounted grid.                                          *)
(***************************************************************************)
InGrid == component = "DataGrid"

\* the row count the last run of the scrollTop effect was given
RowsCountUsed == IF rangeDeps = << >> THEN visibleRowsCount(0) ELSE rangeDeps[2]

\* the largest window any viewport of the model asks for
LargestWindow == Max(10, RefCeil(TallHeight, 35)) + 2

\* C4 (as stated): in every reachable state the number of materialized rows
\* is at most visibleRowsCount + 2 in VirtualizedRows, for the
\* visibleRowsCount of that state.
C4_BoundedByCurrentViewport ==
    InGrid => Len(VisibleData) <= VisibleRowsCount + 2

\* C4 (amended): in every reachable state the number of materialized rows is
\* at most v + 2 in VirtualizedRows, where v is the visibleRowsCount the last
\* window computation was given, which is the current one once the pending
\* effects have run; in DataGridBody it is at most visibleCount +
\* 2 * overscan + 1 of the computation that produced the rows.  The bound is
\* a function of the viewport, the same for every dataset length, and a
\* dataset longer than it is never fully materialized.
C4_BoundedByComputedViewport ==
    /\ InGrid =>
          LET materialized == Len(VisibleData)
          IN  /\ materialized <= RowsCountUsed + 2
              /\ ~EffectsPending => materialized <= VisibleRowsCount + 2
              /\ materialized <= LargestWindow
              /\ Len(data) > LargestWindow => materialized < Len(data)
    /\ WinComputed =>
          /\ WinBody.end - WinBody.start + 1
                <= WinBody.visibleRowCount + 2 * WinBody.overscanRowCount + 1
          /\ WinBody.visibleRowCount =
                RefVisibleCount(winIn[1].height, winIn[1].rowHeight)
          /\ WinBody.overscanRowCount = RefOverscan(WinBody.visibleRowCount)

\* C4 witness: the grid has scrolled into a dataset longer than the bound
\* and materializes exactly visibleRowsCount + 2 of its rows
C4_Witness ==
    /\ InGrid
    /\ Quiescent
    /\ Len(data) > LargestWindow
    /\ visibleRange.startIndex > 0
    /\ Len(VisibleData) = VisibleRowsCount + 2

\* C5 (as stated): after any dataset replacement, whatever the old and new
\* lengths, once the grid has settled scrollTop is 0 in the state and in the
\* body, and the window is the one computed from scrollTop 0 against the new
\* dataset.
C5_ReplacementResetsScroll ==
    (InGrid /\ lastEvent.type = "replace" /\ Quiescent) =>
        /\ scrollPosition.top = 0
        /\ bodyDom.scrollTop = 0
        /\ visibleRange = RangeOf(0, VisibleRowsCount, Len(data))

\* the last event was a click on the header cell of a column with this flag
ClickedColumn(sortable) ==
    /\ InGrid
    /\ lastEvent.type = "click"
    /\ \E i \in 1..Len(headers) :
          headers[i].id = lastEvent.column /\ headers[i].sortable = sortable

\* C6: repeated activation of the same sortable column cycles ascending ->
\* descending -> unsorted -> ascending: activating c gives {c, asc} from
\* {key: null}, {c, desc} from {c, asc}, and {key: null} from {c, desc}.
C6_ThreeStateToggle ==
    ClickedColumn(TRUE) =>
        LET c == lastEvent.column
            before == lastEvent.sortBefore
        IN  /\ before.key = NULL
                  => sortConfig = [key |-> c, direction |-> "asc"]
            /\ (before.key = c /\ before.direction = "asc")
                  => sortConfig = [key |-> c, direction |-> "desc"]
            /\ (before.key = c /\ before.direction = "desc")
                  => sortConfig.key = NULL

\* C6 witness: the third activation of column a has put the grid back to
\* unsorted
C6_Witness ==
    /\ ClickedColumn(TRUE)
    /\ lastEvent.column = "a"
    /\ lastEvent.sortBefore = [key |-> "a", direction |-> "desc"]
    /\ sortConfig.key = NULL

\* C7: activating a sortable column d other than the active column yields
\* {key: d, direction: asc}, whatever the previous key and direction were.
C7_OtherColumnStartsAscending ==
    (ClickedColumn(TRUE) /\ lastEvent.sortBefore.key # lastEvent.column) =>
        sortConfig = [key |-> lastEvent.column, direction |-> "asc"]

\* C7 witness: column b activated while column a was sorted descending
C7_Witness ==
    /\ ClickedColumn(TRUE)
    /\ lastEvent.column = "b"
    /\ lastEvent.sortBefore = [key |-> "a", direction |-> "desc"]
    /\ sortConfig = [key |-> "b", direction |-> "asc"]

\* C8: sorting never mutates the source dataset, and whenever the sort state
\* has no active column the sequence fed to the window calculation is the
\* source dataset in its original insertion order.
C8_UnsortedIsSourceOrder ==
    InGrid =>
        /\ data \in Datasets
        /\ sortConfig.key = NULL =>
              /\ SortedData = data
              /\ \A k \in 1..Len(SortedData) : SortedData[k].c = Num(k)

\* C8 witness: the grid is unsorted again after a descending sort of the
\* long dataset, scrolled away from the top
C8_Witness ==
    /\ ClickedColumn(TRUE)
    /\ lastEvent.sortBefore.direction = "desc"
    /\ sortConfig.key = NULL
    /\ Len(data) = BigLen
    /\ visibleRange.startIndex > 0

\* the records of s with equal keys are in the order of the source
TiesInSourceOrder(s, key) ==
    \A i, j \in 1..Len(s) :
        (i < j /\ s[i][key] = s[j][key]) => s[i].id < s[j].id

\* s holds the records of d, each once
SameRecords(s, d) ==
    /\ Len(s) = Len(d)
    /\ {s[k] : k \in 1..Len(s)} = {d[k] : k \in 1..Len(d)}

\* C9: sorting is stable and idempotent: records with equal keys keep their
\* original relative order in ascending and in descending direction, and
\* sorting the sorted sequence by the same key and direction returns it.
C9_StableAndIdempotent ==
    (InGrid /\ sortConfig.key # NULL) =>
        LET sorted == SortedData
        IN  /\ TiesInSourceOrder(sorted, sortConfig.key)
            /\ SameRecords(sorted, data)
            /\ orderBy(sorted, sortConfig.key, sortConfig.direction) = sorted

\* C9 witness: a descending sort of a column with ties and empty cells
C9_Witness ==
    /\ InGrid
    /\ sortConfig = [key |-> "a", direction |-> "desc"]
    /\ \E i, j \in 1..Len(data) : i < j /\ data[i].a = data[j].a
    /\ SortedData # data

\* C10: activating a column whose sortable flag is false is a no-op: in
\* DataGrid the sort state is the one before the click and the source of the
\* sorted sequence is untouched; DataGridHeader calls onSort for sortable
\* columns only.
C10_NonSortableClickIsNoOp ==
    /\ ClickedColumn(FALSE) =>
          /\ sortConfig = lastEvent.sortBefore
          /\ data \in Datasets
    /\ component = "DataGridHeader" =>
          \A k \in 1..Len(onSortCalls) :
              \E i \in 1..Len(hdrHeaders) :
                  hdrHeaders[i].id = onSortCalls[k] /\ hdrHeaders[i].sortable

\* C10 witness: the non-sortable column c was clicked while column a was
\* sorted, and the sort state is the one before the click
C10_Witness ==
    /\ ClickedColumn(FALSE)
    /\ lastEvent.column = "c"
    /\ lastEvent.sortBefore.key = "a"
    /\ sortConfig = lastEvent.sortBefore

(***************************************************************************)
(* Claims about column resizing.                                           *)
(***************************************************************************)
ClampComputed == component = "ClampCalc" /\ clampOut # << >>

\* the proposed width clamped into the column's own limits
RefClamp(header, proposed) ==
    IF proposed < header.minWidth THEN header.minWidth
    ELSE IF proposed > header.maxWidth THEN header.maxWidth
    ELSE proposed

\* C11 (as stated): for every column definition with minWidth <= maxWidth a
\* resize with proposed width startWidth + delta yields the column's own
\* minWidth below it, its own maxWidth above it and the proposed width
\* otherwise, from the resize handle of DataGrid and from
\* DataGridHeader.handleResizeEnd alike.
C11_ClampsToOwnLimits ==
    ClampComputed =>
        LET header   == clampIn[1].header
            proposed == header.width + clampIn[1].delta
        IN  /\ clampOut[1].grid = RefClamp(header, proposed)
            /\ clampOut[1].header = RefClamp(header, proposed)

\* C12 (as stated): in every reachable state of the grid every column has
\* minWidth <= width <= maxWidth.
C12_WidthsWithinLimits ==
    InGrid =>
        \A i \in 1..Len(headers) :
            /\ headers[i].minWidth <= headers[i].width
            /\ headers[i].width <= headers[i].maxWidth

\* the column with this id in a header sequence
\* C13: a resize request on a column whose resizable flag is false is a
\* no-op.  In DataGrid a press on such a column starts no gesture, a gesture
\* in progress is always on a resizable column, and a non-resizable column
\* is still exactly one of the supplied column definitions, whatever was
\* dragged before; in DataGridHeader resizingColumn is only ever a resizable
\* column.
C13_NonResizableIsNoOp ==
    /\ InGrid =>
          /\ \A i \in 1..Len(headers) :
                ~headers[i].resizable =>
                    \E hs \in HeaderSets : \E k \in 1..Len(hs) : hs[k] = headers[i]
          /\ drag # << >> => ColumnOf(headers, drag[1].id).resizable
          /\ (/\ lastEvent.type = "mousedown"
              /\ ~ColumnOf(headers, lastEvent.column).resizable) => drag = << >>
    /\ component = "DataGridHeader" =>
          (hdrResizing # << >> => ColumnOf(hdrHeaders, hdrResizing[1]).resizable)

\* C13 witness: after another column has been resized, the last event is a
\* press on a non-resizable column of the grid
C13_Witness ==
    /\ InGrid
    /\ resizeMoves > 0
    /\ lastEvent.type = "mousedown"
    /\ ~ColumnOf(headers, lastEvent.column).resizable
    /\ \E i \in 1..Len(headers) : headers[i].width # 150

(***************************************************************************)
(* Claims about scroll synchronisation.                                    *)
(***************************************************************************)
\* C14 (as stated): once the pending scroll notifications are processed,
\* header and body show the identical horizontal offset.
C14_SameOffsetWhenSettled ==
    (InGrid /\ ~EmptyShown /\ pendingScroll = {}) =>
        headerDom.scrollLeft = bodyDom.scrollLeft

\* C15 (as stated): the scroll notification raised by a synchronising
\* assignment performs no further assignment: handleScroll never assigns
\* twice in a row with no other scroll between the two runs.
C15_NoSecondAssignment == InGrid => syncChain < 2

\* C16: a scroll notification from the header never changes the stored
\* scrollTop, and the stored scrollTop of a settled grid is the vertical
\* offset of the body.
C16_HeaderNeverMovesTop ==
    InGrid =>
        /\ ~monitor.headerChangedTop
        /\ Quiescent /\ ~EmptyShown => scrollPosition.top = bodyDom.scrollTop

\* C16 witness: the header has been scrolled horizontally in a grid that is
\* scrolled down, and the notification has been handled
C16_Witness ==
    /\ InGrid
    /\ Quiescent
    /\ lastEvent.type = "scrollX"
    /\ lastEvent.column = "header"
    /\ headerDom.scrollLeft > 0
    /\ scrollPosition.left = headerDom.scrollLeft
    /\ bodyDom.scrollLeft = headerDom.scrollLeft
    /\ scrollPosition.top > 0

(***************************************************************************)
(* Claims about the props of the mounted grid.                             *)
(***************************************************************************)
\* C17 (as stated): the placeholder is shown exactly when the dataset or the
\* supplied column set is empty.
C17_EmptyIffNoDataOrColumns ==
    InGrid => (EmptyShown <=> (data = << >> \/ headersProp = << >>))

Ids(hs) == [k \in 1..Len(hs) |-> hs[k].id]

\* C20 (as stated): the identifier sequence of the column layout equals the
\* identifier sequence of the supplied column definitions.
C20_LayoutIdsAreSuppliedIds == InGrid => Ids(headers) = Ids(headersProp)

(***************************************************************************)
(* Claims about the row-height estimate and invalid geometry.              *)
(***************************************************************************)
\* C18 (as stated): a measurement changes the estimate if and only if the
\* sample is positive and differs from the estimate by more than 1, and then
\* the estimate is the sample; the estimate is positive in every state.
C18_MeasureUpdatesIffBeyondTolerance ==
    component = "DataGridBody" =>
        /\ measuredRowHeight > 0
        /\ lastMeasure # << >> =>
              LET m == lastMeasure[1]
              IN  measuredRowHeight =
                     IF m.computedHeight > 0 /\ Abs(m.computedHeight - m.before) > 1
                     THEN m.computedHeight
                     ELSE m.before

\* the inputs of C19: a viewport height that is zero (not measured or
\* collapsed), a non-empty dataset and a scroll position on one of its rows
WinZeroHeight ==
    /\ WinComputed
    /\ winIn[1].height = 0
    /\ winIn[1].len > 0
    /\ winIn[1].scrollTop < winIn[1].len * winIn[1].rowHeight
    /\ winIn[1].scrollTop < winIn[1].len * ROW_HEIGHT

BodyMounted == component = "DataGridBody" /\ effectDeps # << >>

\* no effect, frame callback or debounced callback is waiting to run
BodySettled ==
    /\ BodyMounted
    /\ ~BodyEffectsPending
    /\ frames = << >>
    /\ bodyResizeTimer = << >>
    /\ bodyMutationTimer = << >>

\* top of the virtual-rows-container in the committed render
BlockTop ==
    Rendered(visibleRows, bodyStartIndex, measuredRowHeight, Len(bodyData)).top

\* C21 (as stated): in every rendered state the block of rows is placed at
\* startIndex * rowHeight with the rowHeight of the window computation that
\* produced startIndex, also between a re-measurement and the next window
\* computation.
C21_BlockAtStartTimesRowHeight ==
    (BodyMounted /\ lastCalc # << >>) =>
        BlockTop = bodyStartIndex * lastCalc[1].rowHeight

\* C23 (as stated): a debounced recomputation uses the dataset, the measured
\* row height and the scrollTop that are current when it runs.
C23_DebouncedUsesLatest ==
    (BodyMounted /\ lastCalc # << >>
        /\ lastCalc[1].via \in {"resize", "mutation"}) =>
        /\ lastCalc[1].data = lastCalc[1].currentData
        /\ lastCalc[1].rowHeight = lastCalc[1].currentRowHeight
        /\ lastCalc[1].scrollTop = lastCalc[1].domScrollTop

FrameRan == BodyMounted /\ lastCalc # << >> /\ lastCalc[1].via = "frame"

\* C24 (as stated): the recomputation a scroll notification with scrollTop t
\* requested uses exactly t.
C24_UsesNotifiedScrollTop ==
    FrameRan => lastCalc[1].scrollTop = lastCalc[1].frame[1].notified

\* C24 (amended): the recomputation a scroll notification requested uses the
\* scrollTop the body has when the frame callback runs: the t of the
\* notification when the body has not been scrolled since, and the newer
\* offset otherwise, never an older one.
C24_UsesScrollTopAtFrame ==
    FrameRan =>
        /\ lastCalc[1].scrollTop = lastCalc[1].domScrollTop
        /\ ~lastCalc[1].frame[1].rescrolled =>
              lastCalc[1].scrollTop = lastCalc[1].frame[1].notified
        /\ lastEvent.type = "frame" =>
              /\ lastCalc[1].scrollTop = container.scrollTop
              /\ bodyStartIndex =
                    Max(0, FloorDiv(container.scrollTop, lastCalc[1].rowHeight)
                           - overscanRowCount(
                                CeilDiv(container.clientHeight,
                                        lastCalc[1].rowHeight)))

\* C24 witness: a frame callback has run after the body was scrolled a
\* second time, and has computed with the second offset
C24_Witness ==
    /\ FrameRan
    /\ lastEvent.type = "frame"
    /\ lastCalc[1].frame[1].notified # container.scrollTop
    /\ lastCalc[1].scrollTop = container.scrollTop
    /\ bodyStartIndex > 0

\* C25 (as stated): at most one scroll-triggered recomputation is pending at
\* any time.
C25_SingleFlight == component = "DataGridBody" => Len(frames) <= 1

\* C26 (as stated): once nothing is pending the rows are the slice of the
\* current dataset for the window computed from the current scrollTop,
\* viewport height and row height.
C26_ConvergesToCurrentWindow ==
    BodySettled =>
        LET w == windowOf(CurrentClosure, container)
        IN  /\ bodyStartIndex = w.start
            /\ visibleRows = rowsOf(CurrentClosure, w)

\* C27: a batch of mutations with no class or style attribute record and no
\* child-list record starts no measurement and no recomputation and leaves
\* row height, window, scroll state and the pending callbacks as they were.
C27_IrrelevantMutationIgnored ==
    (component = "DataGridBody" /\ lastEvent.type = "mutation"
        /\ lastEvent.column = "irrelevant") =>
        bodyLog.before = << BodySnapshot >>

\* C27 witness: such a batch arrived while a debounced mutation callback was
\* waiting, rows were shown and their height had been measured
C27_Witness ==
    /\ component = "DataGridBody"
    /\ lastEvent.type = "mutation"
    /\ lastEvent.column = "irrelevant"
    /\ bodyMutationTimer # << >>
    /\ measuredRowHeight # DefaultMeasuredRowHeight
    /\ visibleRows # << >>

\* C28 (as stated): once the callbacks that followed a geometry change have
\* run, the row height has been measured again and the window has been
\* computed with the measured height.
C28_RemeasuredThenRecomputed ==
    (BodySettled /\ visibleRows # << >> /\ container.rowHeight > 0) =>
        /\ lastMeasure # << >>
        /\ lastMeasure[1].computedHeight = container.rowHeight
        /\ Abs(container.rowHeight - measuredRowHeight) <= 1
        /\ lastCalc[1].rowHeight = measuredRowHeight

(***************************************************************************)
(* Claims about the resize gesture of DataGridHeader.                      *)
(***************************************************************************)
\* C30 (as stated): once a gesture begun at x0 on a resizable column of
\* width w0 has ended with the button released at x, the width of the column
\* is w0 + (x - x0) clamped to the limits of the column, every other column
\* has the width it had, and pointer moves after the release change nothing.
C30_GestureRelativeToItsStart ==
    (component = "DataGridHeader" /\ hdrGesture.ended # << >>) =>
        LET g == hdrGesture.ended[1]
        IN  \A i \in 1..Len(hdrHeaders) :
               hdrHeaders[i].width =
                  IF hdrHeaders[i].id = g.id
                  THEN resizeEndWidth(g.before[i], g.w0, g.x - g.x0)
                  ELSE g.before[i].width

(***************************************************************************)
(* Claims about the grid once it shows rows.                               *)
(***************************************************************************)
\* C29 (as stated): whatever path led to the grid showing rows, a resize of
\* the container is followed by the stored dimensions being those of the
\* container once the debounced callback has nothing left to deliver.
C29_LoadedIsFullyActive ==
    (InGrid /\ ~EmptyShown /\ ~EffectsPending /\ lastEvent.type = "resize"
        /\ resizeTimer = << >>) =>
        dimensions = containerSize

(***************************************************************************)
(* Claims about bursts of notifications.                                   *)
(***************************************************************************)
\* C22 (as stated): a burst of k >= 1 notifications, each less than the
\* debounce delay after the one before, causes exactly one call of the
\* callback, made with the entries of the last notification.
C22_BurstCausesOneRecomputation ==
    (component = "observers" /\ Util.burst = "over"
        /\ Util.frames = << >> /\ Util.timers = << >>) =>
        Util.calls = << Util.notified[Len(Util.notified)] >>

SpecWindow == InitWindow /\ [][ComputeWindows]_vars

SpecGrid == InitGrid /\ [][GridNext]_vars

SpecViewport == (InitGrid \/ InitWindow) /\ [][GridNext \/ ComputeWindows]_vars

SpecSort == (InitGrid \/ InitHeader) /\ [][GridNext \/ HeaderNext]_vars

SpecColumns == InitColumns /\ [][ColumnsNext]_vars

SpecProps == InitProps /\ [][PropsNext]_vars

SpecResize == (InitColumns \/ InitHeader) /\ [][ColumnsNext \/ HeaderNext]_vars

SpecBody == InitBody /\ [][BodyNext]_vars

SpecBodyScroll == InitBodyScroll /\ [][BodyScrollNext]_vars

SpecBodyMeasure == InitBodyMeasure /\ [][BodyMeasureNext]_vars

SpecClamp == InitClamp /\ [][ComputeClamps]_vars

SpecHeader == InitHeader /\ [][HeaderNext]_vars

SpecObservers == InitUtil /\ [][UtilNext]_vars

(***************************************************************************)
(* Claims about the teardown of observers.                                 *)
(***************************************************************************)
\* C31 (as stated): after the cleanup of an effect of the grid has called
\* disconnect() at unmount, no debounced resize or mutation callback runs
\* any more, even when a debounce timer was waiting at that moment.
C31_NoCallbackAfterTeardown ==
    (component = "observers"
        /\ Util.kind \in GridObservers \cup BodyObservers
        /\ ~Util.connected) =>
        Util.late = << >>

\* C32 (as stated): after the caller has disconnected the observer that
\* intersectionObserver returned, the observer observes no target, whenever
\* disconnect() is called relative to the delayed start of observation.
C32_DisconnectedObservesNothing ==
    (component = "observers"
        /\ Util.kind = "intersectionObserver"
        /\ ~Util.connected) =>
        Util.observing = {}

SpecTeardown == InitTeardown /\ [][TeardownNext]_vars

====
